---- MODULE Spec2Model ----
(***************************************************************************)
(* Model of the temporal aggregation and unique-project counting engine of *)
(* gerador_dashboard.py: the Python generator (get_projects_details,       *)
(* LaunchDataManager) and the JavaScript embedded in the generated page    *)
(* (calculate*PeriodAggregations, generateCrossData, renderCrossTables).   *)
(*                                                                         *)
(* JavaScript objects are modelled as functions whose DOMAIN is the set of *)
(* keys; a monthly key is the period AAAAMM, a quarterly key "year_qT" is  *)
(* the pair <<year, q>>, a yearly key is the year.  JavaScript numbers are *)
(* modelled exactly: quotients are reduced fractions <<n, d>>.             *)
(***************************************************************************)
EXTENDS Integers, Sequences, FiniteSets, TLC

\* ------------------------------------------------------------------ bounds
MaxRows == 3
\* the most words of a project name
MaxWords == 3
\* the most successive applications of the name normalisation
MaxPasses == 2
\* how far, in half units, the bracket scenarios go on each side of a bracket bound
MaxOffset == 2
\* the most session ids the server issues
MaxSessions == 2
MaxYears == 2
MaxCommercialRows == 1

\* ------------------------------------------------------------ input values
\* the months of the scenarios, AAAAMM
Periods == {202101, 202102, 202104, 202201}

\* ------------------------------------------------------- exact arithmetic
RECURSIVE GCD(_, _)
GCD(a, b) == IF b = 0 THEN (IF a < 0 THEN -a ELSE a) ELSE GCD(b, a % b)

\* the JavaScript quotient n / d of two integers (d >= 0) as a reduced fraction;
\* 0 / 0 is NaN and n / 0 is Infinity
NaN == <<0, 0>>
Infinity == <<1, 0>>
Frac(n, d) ==
    IF d = 0 THEN (IF n = 0 THEN NaN ELSE Infinity)
    ELSE LET g == GCD(n, d) IN <<n \div g, d \div g>>
Zero == <<0, 1>>
IsNumber(x) == x[2] > 0

FracAdd(x, y) == Frac(x[1] * y[2] + y[1] * x[2], x[2] * y[2])

RECURSIVE SumSeq(_)
SumSeq(s) == IF s = <<>> THEN 0 ELSE Head(s) + SumSeq(Tail(s))

RECURSIVE SumOver(_, _)
SumOver(f, S) ==
    IF S = {} THEN 0
    ELSE LET k == CHOOSE x \in S : TRUE IN f[k] + SumOver(f, S \ {k})

RECURSIVE FracSumOver(_, _)
FracSumOver(f, S) ==
    IF S = {} THEN Zero
    ELSE LET k == CHOOSE x \in S : TRUE IN FracAdd(f[k], FracSumOver(f, S \ {k}))

\* Math.round(s / n) for integers s and n > 0: the nearest integer, halves up
MathRound(s, n) == (2 * s + n) \div (2 * n)

\* ------------------------------------------------- status lists of the page
ofertaTypes == {"OFERTADOS DISPONIVEIS", "OFERTADOS LANCAMENTOS"}
vendaTypes == {"VENDIDOS", "VENDIDOS - LANCADOS E VENDIDOS"}
lancamentoTypes == {"OFERTADOS LANCAMENTOS"}
distratoTypes == {"DISTRATO"}

\* ---------------------------------------------------------- period keys
\* parseInt(String(period).substring(0, 4)) and substring(4, 6) of AAAAMM; the
\* key of a row without period ('null') parses to NaN, written as year 0 and
\* month 0: NaN fails every comparison of getQuarter, which returns 4
entryYear(period) == period \div 100
entryMonth(period) == period % 100

getQuarter(month) ==
    IF month >= 1 /\ month <= 3 THEN 1
    ELSE IF month >= 4 /\ month <= 6 THEN 2
    ELSE IF month >= 7 /\ month <= 9 THEN 3
    ELSE 4

quarterKey(period) == <<entryYear(period), getQuarter(entryMonth(period))>>
yearKey(period) == entryYear(period)

\* quarterlyGroups / yearlyGroups: key -> the monthly keys pushed under it
quarterlyGroups(keys) ==
    [k \in {quarterKey(p) : p \in keys} |-> {p \in keys : quarterKey(p) = k}]
yearlyGroups(keys) ==
    [k \in {yearKey(p) : p \in keys} |-> {p \in keys : yearKey(p) = k}]

\* ------------------------------------------------ Period Aggregator (page)
\* monthly unit totals: periods[period] += row.QUANTIDADE for rows of the types
calculateIndicator(data, types) ==
    LET keys == {data[i].ANO_MES : i \in {j \in DOMAIN data : data[j].OFERTA_VENDA \in types}}
    IN [p \in keys |->
          SumSeq([i \in DOMAIN data |->
                    IF data[i].OFERTA_VENDA \in types /\ data[i].ANO_MES = p
                    THEN data[i].QUANTIDADE ELSE 0])]

\* the rounded mean whatever the metric
reduceGroup_mean(monthly, group, isOferta) ==
    MathRound(SumOver(monthly, group), Cardinality(group))

\* the sum whatever the metric
reduceGroup_sum(monthly, group, isOferta) == SumOver(monthly, group)

\* values.reduce(sum) / values.length rounded when isOferta, values.reduce(sum) otherwise
reduceGroup(monthly, group, isOferta) ==
    IF isOferta THEN MathRound(SumOver(monthly, group), Cardinality(group))
    ELSE SumOver(monthly, group)

\* the monthly -> quarterly -> yearly roll-up shared by the unit, area and VGL/VGV series
rollUp(monthly, isOferta) ==
    IF DOMAIN monthly = {}
    THEN [monthly |-> <<>>, quarterly |-> <<>>, yearly |-> <<>>]
    ELSE LET qg == quarterlyGroups(DOMAIN monthly)
             yg == yearlyGroups(DOMAIN monthly)
         IN [monthly |-> monthly,
             quarterly |-> [k \in DOMAIN qg |-> reduceGroup(monthly, qg[k], isOferta)],
             yearly |-> [k \in DOMAIN yg |-> reduceGroup(monthly, yg[k], isOferta)]]

calculatePeriodAggregations(data, types, isOferta) ==
    rollUp(calculateIndicator(data, types), isOferta)

\* monthly IVV: every row opens its period; vendas / ofertas * 100, 0 without offers
calculateIVV(data) ==
    LET keys == {data[i].ANO_MES : i \in DOMAIN data}
        vendas(p) == SumSeq([i \in DOMAIN data |->
                               IF data[i].OFERTA_VENDA \in vendaTypes /\ data[i].ANO_MES = p
                               THEN data[i].QUANTIDADE ELSE 0])
        ofertas(p) == SumSeq([i \in DOMAIN data |->
                                IF data[i].OFERTA_VENDA \in ofertaTypes /\ data[i].ANO_MES = p
                                THEN data[i].QUANTIDADE ELSE 0])
    IN [p \in keys |-> IF ofertas(p) > 0 THEN Frac(vendas(p) * 100, ofertas(p)) ELSE Zero]

\* values.reduce(sum) / values.length over the monthly IVV values of a group
meanGroup(monthlyIVV, group) ==
    LET s == FracSumOver(monthlyIVV, group)
    IN Frac(s[1], s[2] * Cardinality(group))

\* quarterly and yearly IVV recomputed from the summed sales and offers
calculateIVVPeriodAggregations_recomputed(data) ==
    LET monthlyIVV == calculateIVV(data)
        qg == quarterlyGroups(DOMAIN monthlyIVV)
        yg == yearlyGroups(DOMAIN monthlyIVV)
        units(types, group) ==
            SumSeq([i \in DOMAIN data |->
                      IF data[i].OFERTA_VENDA \in types /\ data[i].ANO_MES \in group
                      THEN data[i].QUANTIDADE ELSE 0])
        ratio(group) ==
            IF units(ofertaTypes, group) > 0
            THEN Frac(units(vendaTypes, group) * 100, units(ofertaTypes, group)) ELSE Zero
    IN [monthly |-> monthlyIVV,
        quarterly |-> [k \in DOMAIN qg |-> ratio(qg[k])],
        yearly |-> [k \in DOMAIN yg |-> ratio(yg[k])]]

calculateIVVPeriodAggregations(data) ==
    LET monthlyIVV == calculateIVV(data)
    IN IF DOMAIN monthlyIVV = {}
       THEN [monthly |-> <<>>, quarterly |-> <<>>, yearly |-> <<>>]
       ELSE LET qg == quarterlyGroups(DOMAIN monthlyIVV)
                yg == yearlyGroups(DOMAIN monthlyIVV)
            IN [monthly |-> monthlyIVV,
                quarterly |-> [k \in DOMAIN qg |-> meanGroup(monthlyIVV, qg[k])],
                yearly |-> [k \in DOMAIN yg |-> meanGroup(monthlyIVV, yg[k])]]

calculateAreaPeriodAggregations(data, types, isOferta) ==
    LET keys == {data[i].ANO_MES : i \in {j \in DOMAIN data : data[j].OFERTA_VENDA \in types}}
        monthly == [p \in keys |->
                      SumSeq([i \in DOMAIN data |->
                                IF data[i].OFERTA_VENDA \in types /\ data[i].ANO_MES = p
                                THEN data[i].AREA_QUANTIDADE ELSE 0])]
    IN rollUp(monthly, isOferta)

calculateVGLVGVPeriodAggregations(data, types) ==
    LET keys == {data[i].ANO_MES : i \in {j \in DOMAIN data : data[j].OFERTA_VENDA \in types}}
        monthly == [p \in keys |->
                      SumSeq([i \in DOMAIN data |->
                                IF data[i].OFERTA_VENDA \in types /\ data[i].ANO_MES = p
                                THEN data[i].AREA_QUANTIDADE_VALOR ELSE 0])]
    IN rollUp(monthly, FALSE)

\* every row of the types enters monthlyData
ponderadoRow_statusOnly(row, types) == row.OFERTA_VENDA \in types

\* a row enters monthlyData only with areaQuantidadeValor > 0 and areaQuantidade > 0
ponderadoRow(row, types) ==
    /\ row.OFERTA_VENDA \in types
    /\ row.AREA_QUANTIDADE_VALOR > 0
    /\ row.AREA_QUANTIDADE > 0

\* totalArea > 0 ? totalValor / totalArea : 0
ponderadoRatio(totalValor, totalArea) ==
    IF totalArea > 0 THEN Frac(totalValor, totalArea) ELSE Zero

\* quarterly and yearly values as the mean of the monthly ratios
calculateValorPonderadoPeriodAggregations_meanOfRatios(data, types) ==
    LET keys == {data[i].ANO_MES : i \in {j \in DOMAIN data : ponderadoRow(data[j], types)}}
        monthly == [p \in keys |->
                      Frac(SumSeq([i \in DOMAIN data |->
                                     IF ponderadoRow(data[i], types) /\ data[i].ANO_MES = p
                                     THEN data[i].AREA_QUANTIDADE_VALOR ELSE 0]),
                           SumSeq([i \in DOMAIN data |->
                                     IF ponderadoRow(data[i], types) /\ data[i].ANO_MES = p
                                     THEN data[i].AREA_QUANTIDADE ELSE 0]))]
        qg == quarterlyGroups(keys)
        yg == yearlyGroups(keys)
    IN [monthly |-> monthly,
        quarterly |-> [k \in DOMAIN qg |-> meanGroup(monthly, qg[k])],
        yearly |-> [k \in DOMAIN yg |-> meanGroup(monthly, yg[k])]]

calculateValorPonderadoPeriodAggregations(data, types) ==
    LET keys == {data[i].ANO_MES : i \in {j \in DOMAIN data : ponderadoRow(data[j], types)}}
        totalValor == [p \in keys |->
                         SumSeq([i \in DOMAIN data |->
                                   IF ponderadoRow(data[i], types) /\ data[i].ANO_MES = p
                                   THEN data[i].AREA_QUANTIDADE_VALOR ELSE 0])]
        totalArea == [p \in keys |->
                        SumSeq([i \in DOMAIN data |->
                                  IF ponderadoRow(data[i], types) /\ data[i].ANO_MES = p
                                  THEN data[i].AREA_QUANTIDADE ELSE 0])]
        monthlyKeys == {p \in keys : totalArea[p] > 0}
        monthly == [p \in monthlyKeys |-> Frac(totalValor[p], totalArea[p])]
    IN IF monthlyKeys = {}
       THEN [monthly |-> <<>>, quarterly |-> <<>>, yearly |-> <<>>]
       ELSE LET qg == quarterlyGroups(keys)
                yg == yearlyGroups(keys)
            IN [monthly |-> monthly,
                quarterly |-> [k \in DOMAIN qg |->
                                 ponderadoRatio(SumOver(totalValor, qg[k]), SumOver(totalArea, qg[k]))],
                yearly |-> [k \in DOMAIN yg |->
                              ponderadoRatio(SumOver(totalValor, yg[k]), SumOver(totalArea, yg[k]))]]

\* the series updateTables computes from the rows it is given
tableSeries(data) ==
    [ivv |-> calculateIVVPeriodAggregations(data),
     ofertas |-> calculatePeriodAggregations(data, ofertaTypes, TRUE),
     vendas |-> calculatePeriodAggregations(data, vendaTypes, FALSE),
     lancamentos |-> calculatePeriodAggregations(data, lancamentoTypes, FALSE),
     ofertaArea |-> calculateAreaPeriodAggregations(data, ofertaTypes, TRUE),
     vendaArea |-> calculateAreaPeriodAggregations(data, vendaTypes, FALSE),
     ofertaValorPonderado |-> calculateValorPonderadoPeriodAggregations(data, ofertaTypes),
     vendaValorPonderado |-> calculateValorPonderadoPeriodAggregations(data, vendaTypes),
     vgl |-> calculateVGLVGVPeriodAggregations(data, lancamentoTypes),
     vgv |-> calculateVGLVGVPeriodAggregations(data, vendaTypes),
     distratos |-> calculatePeriodAggregations(data, distratoTypes, FALSE)]

NoTables == [shown |-> FALSE]

\* ------------------------------------------------ Row Normalizer (generator)
\* A project name is the sequence of its whitespace-separated words.
NoName == <<"N/A">>

\* str.upper() on the words the scenarios use
Upper(w) ==
    CASE w = "Residencial" -> "RESIDENCIAL"
      [] w = "Res" -> "RES"
      [] w = "Empreendimento" -> "EMPREENDIMENTO"
      [] w = "Alfa" -> "ALFA"
      [] w = "Beta" -> "BETA"
      [] w = "Bloco" -> "BLOCO"
      [] w = "Torre" -> "TORRE"
      [] OTHER -> w

\* the upper-case words made of [A-Z0-9] only, and those made of digits only
AlnumWords == {"ALFA", "BETA", "A", "B", "1", "2", "BL", "BLOCO", "TORRE", "TIPO",
               "APTO", "APT", "APARTAMENTO", "SALA", "LOJA", "COBERTURA", "GARDEN",
               "DUPLEX", "TRIPLEX", "STUDIO", "LOFT", "2Q", "QUARTO", "QUARTOS", "COM",
               "RESIDENCIAL", "RES", "EMPREENDIMENTO"}
DigitWords == {"1", "2"}

\* 'EMPPREENDIMENTO' / 'EMPREEENDIMENTO' / 'EMPRENDIMENTO' -> 'EMPREENDIMENTO', any case
fixSpelling(w) ==
    IF Upper(w) \in {"EMPPREENDIMENTO", "EMPREEENDIMENTO", "EMPRENDIMENTO"}
    THEN "EMPREENDIMENTO" ELSE w

\* str.replace(r'^PREFIX\s+', '', case=False): the first word, when another follows
stripPrefix(words, prefix) ==
    IF Len(words) >= 2 /\ Upper(words[1]) = prefix THEN Tail(words) ELSE words

RemoveAt(words, i, n) ==
    [j \in 1..(Len(words) - n) |-> IF j < i THEN words[j] ELSE words[j + n]]

\* one str.replace(pattern, '') pass: every non-overlapping match, left to right.
\* A pattern '\s+FIRST' or '\s+FIRST\s+SECOND' needs white space before it, so
\* it never matches at the first word.
RECURSIVE removePattern(_, _, _)
removePattern(words, pat, i) ==
    IF i > Len(words) THEN words
    ELSE IF i >= 2 /\ words[i] \in pat.first /\ pat.second = {}
         THEN removePattern(RemoveAt(words, i, 1), pat, i)
    ELSE IF i >= 2 /\ words[i] \in pat.first /\ i + 1 <= Len(words) /\ words[i + 1] \in pat.second
         THEN removePattern(RemoveAt(words, i, 2), pat, i)
    ELSE removePattern(words, pat, i + 1)

patterns_to_remove ==
    << [first |-> {"BL"}, second |-> AlnumWords],
       [first |-> {"BLOCO"}, second |-> AlnumWords],
       [first |-> {"TORRE"}, second |-> AlnumWords],
       [first |-> {"TIPO"}, second |-> {}],
       [first |-> {"APTO"}, second |-> AlnumWords],
       [first |-> {"APT"}, second |-> AlnumWords],
       [first |-> {"APARTAMENTO"}, second |-> AlnumWords],
       [first |-> {"SALA"}, second |-> AlnumWords],
       [first |-> {"LOJA"}, second |-> AlnumWords],
       [first |-> {"COBERTURA"}, second |-> {}],
       [first |-> {"GARDEN"}, second |-> {}],
       [first |-> {"DUPLEX"}, second |-> {}],
       [first |-> {"TRIPLEX"}, second |-> {}],
       [first |-> {"2Q"}, second |-> {}],
       [first |-> DigitWords, second |-> {"QUARTO", "QUARTOS"}],
       [first |-> {"COM"}, second |-> {"TERRAÇO"}],
       [first |-> {"STUDIO"}, second |-> {}],
       [first |-> {"LOFT"}, second |-> {}],
       [first |-> DigitWords, second |-> {"SUÍTE", "SUÍTES"}] >>

RECURSIVE applyPatterns(_, _)
applyPatterns(words, k) ==
    IF k > Len(patterns_to_remove) THEN words
    ELSE applyPatterns(removePattern(words, patterns_to_remove[k], 1), k + 1)

\* ^EMP_\d+$
IsSequentialCode(words) == words \in {<<"EMP_123">>}

\* EMPREENDIMENTO_AGRUPADO of one project name
agrupado(name) ==
    LET spelled == [j \in 1..Len(name) |-> fixSpelling(name[j])]
        stripped == stripPrefix(stripPrefix(stripPrefix(spelled, "EMPREENDIMENTO"),
                                            "RESIDENCIAL"), "RES")
        termo == applyPatterns([j \in 1..Len(stripped) |-> Upper(stripped[j])], 1)
    IN IF ~IsSequentialCode(termo) /\ termo # NoName THEN termo ELSE stripped

\* the rows with the column EMPREENDIMENTO_AGRUPADO added
extract_empreendimento_name(df) ==
    [i \in DOMAIN df |-> df[i] @@ [EMPREENDIMENTO_AGRUPADO |-> agrupado(df[i].EMPREENDIMENTO)]]

\* ------------------------------------------- Unique-Project Counter (generator)
NoPeriod == 0

\* an empty EMPRESA or BAIRRO cell of the sheet, read as NaN
NoText == "NaN"

\* the mask without QUANTIDADE > 0
isLaunch_anyUnits(row) ==
    /\ row.OFERTA_VENDA = "OFERTADOS LANCAMENTOS"
    /\ row.ANO_MES # NoPeriod
    /\ row.EMPRESA # NoText
    /\ row.BAIRRO # NoText
    /\ row.EMPREENDIMENTO_AGRUPADO # NoName

\* the rows get_projects_details keeps before sorting: the mask, then
\* dropna(subset = [EMPREENDIMENTO_AGRUPADO, EMPRESA, BAIRRO, period_col]), then
\* EMPREENDIMENTO_AGRUPADO != 'N/A'
isLaunch(row) ==
    /\ row.OFERTA_VENDA = "OFERTADOS LANCAMENTOS"
    /\ row.QUANTIDADE > 0
    /\ row.ANO_MES # NoPeriod
    /\ row.EMPRESA # NoText
    /\ row.BAIRRO # NoText
    /\ row.EMPREENDIMENTO_AGRUPADO # NoName

\* the rows left in sheet order
sort_values_unsorted(rows) == rows

\* sort_values(period_col): each row placed after the rows of a period <= its own
RECURSIVE sort_values(_)
sort_values(rows) ==
    IF rows = <<>> THEN <<>>
    ELSE LET n == Len(rows)
             rest == sort_values(SubSeq(rows, 1, n - 1))
             x == rows[n]
             before == SelectSeq(rest, LAMBDA r : r.ANO_MES <= x.ANO_MES)
             after == SelectSeq(rest, LAMBDA r : r.ANO_MES > x.ANO_MES)
         IN before \o <<x>> \o after

\* ANO: astype(str).str[:4].astype(int) of AAAAMM
anoOf(period) == period \div 100

quadruple(row) ==
    <<anoOf(row.ANO_MES), row.EMPREENDIMENTO_AGRUPADO, row.EMPRESA, row.BAIRRO>>

\* drop_duplicates(subset = [ANO, EMPREENDIMENTO_AGRUPADO, EMPRESA, BAIRRO], keep = 'first')
drop_duplicates(rows) ==
    LET keep == {i \in DOMAIN rows : \A j \in 1..(i - 1) : quadruple(rows[j]) # quadruple(rows[i])}
        F[i \in 0..Len(rows)] ==
            IF i = 0 THEN <<>>
            ELSE IF i \in keep THEN Append(F[i - 1], rows[i]) ELSE F[i - 1]
    IN F[Len(rows)]

triple(row) == <<row.EMPREENDIMENTO_AGRUPADO, row.EMPRESA, row.BAIRRO>>

\* {AAAAMM: [(empreendimento, empresa, bairro), ...]}
get_projects_details(df) ==
    IF df = <<>> THEN <<>>
    ELSE LET df2 == extract_empreendimento_name(df)
             lanc == SelectSeq(df2, isLaunch)
             unique_historical == drop_duplicates(sort_values(lanc))
             keys == {unique_historical[i].ANO_MES : i \in DOMAIN unique_historical}
             group(p) == SelectSeq(unique_historical, LAMBDA r : r.ANO_MES = p)
         IN [p \in keys |-> [i \in 1..Len(group(p)) |-> triple(group(p)[i])]]

\* the number of months of each year instead of the sum of their values
_aggregate_to_years_months(monthly_data) ==
    LET keys == {p \div 100 : p \in DOMAIN monthly_data}
    IN [k \in keys |-> Cardinality({p \in DOMAIN monthly_data : p \div 100 = k})]

\* quarter = (month - 1) // 3 + 1 under the key f"{year}_{quarter}T"
_aggregate_to_quarters(monthly_data) ==
    LET key(p) == <<p \div 100, ((p % 100) - 1) \div 3 + 1>>
        keys == {key(p) : p \in DOMAIN monthly_data}
    IN [k \in keys |-> SumOver(monthly_data, {p \in DOMAIN monthly_data : key(p) = k})]

_aggregate_to_years(monthly_data) ==
    LET keys == {p \div 100 : p \in DOMAIN monthly_data}
    IN [k \in keys |-> SumOver(monthly_data, {p \in DOMAIN monthly_data : p \div 100 = k})]

get_public_launch_counts(df) ==
    IF df = <<>>
    THEN [monthly_units |-> <<>>, quarterly_units |-> <<>>, yearly_units |-> <<>>,
          monthly_projects |-> <<>>, quarterly_projects |-> <<>>, yearly_projects |-> <<>>]
    ELSE LET projects_details == get_projects_details(df)
             monthly_projects == [p \in DOMAIN projects_details |-> Len(projects_details[p])]
             monthly_units ==
                 [p \in DOMAIN projects_details |->
                    SumSeq([i \in DOMAIN df |->
                              IF df[i].ANO_MES = p /\ df[i].OFERTA_VENDA = "OFERTADOS LANCAMENTOS"
                              THEN df[i].QUANTIDADE ELSE 0])]
         IN [monthly_units |-> monthly_units,
             quarterly_units |-> _aggregate_to_quarters(monthly_units),
             yearly_units |-> _aggregate_to_years(monthly_units),
             monthly_projects |-> monthly_projects,
             quarterly_projects |-> _aggregate_to_quarters(monthly_projects),
             yearly_projects |-> _aggregate_to_years(monthly_projects)]

\* the generator's process
VARIABLES
    current_user,       \* permission_manager.current_user of the generator
    hashseed            \* the seed of str hashes in the process

\* the commercial sheet and the filters of the page
VARIABLES
    commercial_data,    \* the rows of the commercial sheet, as loaded
    rawDataComercial,   \* rawData.comercial, the rows embedded in the page
    checked,            \* the ticked checkboxes of each filter dropdown
    selectedBairros     \* bairroSystem.selectedBairros

\* getattr(self, '_profile_mode', 'admin'): the attribute is assigned nowhere,
\* so the default is what is read
_profile_mode == "admin"

\* f'PROJETO {abs(hash(str(x))) % 1000:03d}': the hash of a str depends on the
\* seed of the process and on the str, here on the number of its words
PROJETO(x) == <<"PROJETO", ToString((hashseed + Len(x)) % 1000)>>

\* the rows embedded in the page: EMPRESA and the project names masked for a
\* profile other than admin, then rows with a blank BAIRRO dropped
prepare_data_for_json(df) ==
    LET profile == _profile_mode
        df_json == IF profile # "admin"
                   THEN [i \in DOMAIN df |->
                           [df[i] EXCEPT !.EMPRESA = "EMPRESA PRIVADA",
                                         !.EMPREENDIMENTO = PROJETO(@)]]
                   ELSE df
    IN SelectSeq(df_json, LAMBDA r : r.BAIRRO \notin {"", NoText})

\* the rows embedded for the cross-tabs: rows with a blank BAIRRO are dropped
prepare_crosstabs_data_for_json(df) == SelectSeq(df, LAMBDA r : r.BAIRRO \notin {"", NoText})

\* ------------------------------------------------- Cross-Tab Builder (page)
\* QTD_QUARTOS of a row that has none
NoRooms == -1

\* the room key of a row: '' without rooms, '4+' from 4 up, the number otherwise
qVal(quartos) ==
    IF quartos = NoRooms THEN ""
    ELSE IF quartos >= 4 THEN "4+" ELSE ToString(quartos)

\* result.oferta_quantidade / result.venda_quantidade: bairro -> room key -> units
crossQuantidade(data, types) ==
    LET idx == {i \in DOMAIN data : data[i].BAIRRO # "" /\ data[i].OFERTA_VENDA \in types}
    IN [b \in {data[i].BAIRRO : i \in idx} |->
          [q \in {qVal(data[i].QTD_QUARTOS) : i \in {j \in idx : data[j].BAIRRO = b}} |->
              SumSeq([i \in DOMAIN data |->
                        IF i \in idx /\ data[i].BAIRRO = b /\ qVal(data[i].QTD_QUARTOS) = q
                        THEN data[i].QUANTIDADE ELSE 0])]]

\* (obj[b] && obj[b][q]) || 0 on a map of units
crossCell(obj, b, q) ==
    IF b \in DOMAIN obj /\ q \in DOMAIN obj[b] THEN obj[b][q] ELSE 0

\* the quotient without the test of the offers
crossIVV_unguarded(vendas, ofertas) == Frac(vendas * 100, ofertas)

\* ofertas > 0 ? (vendas / ofertas) * 100 : 0
crossIVV(vendas, ofertas) ==
    IF ofertas > 0 THEN Frac(vendas * 100, ofertas) ELSE Zero

\* result.oferta_m2 / result.venda_m2 and the totals of the weighted values:
\* bairro -> room key -> sum of (row[field] || 0)
crossSum(data, types, field) ==
    LET idx == {i \in DOMAIN data : data[i].BAIRRO # "" /\ data[i].OFERTA_VENDA \in types}
    IN [b \in {data[i].BAIRRO : i \in idx} |->
          [q \in {qVal(data[i].QTD_QUARTOS) : i \in {j \in idx : data[j].BAIRRO = b}} |->
              SumSeq([i \in DOMAIN data |->
                        IF i \in idx /\ data[i].BAIRRO = b /\ qVal(data[i].QTD_QUARTOS) = q
                        THEN data[i][field] ELSE 0])]]

\* result.valor_ponderado_oferta / result.valor_ponderado_venda:
\* bairro -> room key -> { totalValor, totalArea }
crossRaw(data, types) ==
    LET valor == crossSum(data, types, "AREA_QUANTIDADE_VALOR")
        area == crossSum(data, types, "AREA_QUANTIDADE")
    IN [b \in DOMAIN valor |->
          [q \in DOMAIN valor[b] |-> [totalValor |-> valor[b][q], totalArea |-> area[b][q]]]]

computeAvg(obj) ==
    [b \in DOMAIN obj |->
        [q \in DOMAIN obj[b] |->
            IF obj[b][q].totalArea > 0
            THEN Frac(obj[b][q].totalValor, obj[b][q].totalArea) ELSE Zero]]

\* the regions of each building standard, in the order of the object's keys
\* (names without accents)
padraoRegioes ==
    << [padrao |-> "Alto",
        regioes |-> {"NOROESTE", "SUDOESTE", "JARDIM BOTANICO", "ASA SUL", "ASA NORTE", "LAGO NORTE"}],
       [padrao |-> "Medio",
        regioes |-> {"AGUAS CLARAS", "GUARA", "SOBRADINHO", "SOBRADINHO II", "PARK SUL", "TAGUATINGA"}],
       [padrao |-> "Popular",
        regioes |-> {"CEILANDIA", "PLANALTINA", "SANTA MARIA", "GAMA", "RECANTO DAS EMAS", "SAMAMBAIA"}] >>

\* String.includes between the names of the standards' lists and the names of
\* the scenarios: a name includes itself and the listed shorter names
includes(s, sub) ==
    \/ s = sub
    \/ <<s, sub>> \in {<<"SOBRADINHO II", "SOBRADINHO">>, <<"TAGUATINGA NORTE", "TAGUATINGA">>}

getPadraoRegiao(nomeRegiao) ==
    LET hits == {i \in DOMAIN padraoRegioes :
                    \E r \in padraoRegioes[i].regioes : includes(nomeRegiao, r) \/ includes(r, nomeRegiao)}
    IN IF hits = {} THEN "Medio"
       ELSE padraoRegioes[CHOOSE i \in hits : \A j \in hits : i <= j].padrao

\* the share of the medium standard for every standard
getPercentualPadrao_medio(padrao) == 150

\* the share of the sale value spent after delivery, in thousandths
getPercentualPadrao(padrao) ==
    CASE padrao = "Alto" -> 250
      [] padrao = "Popular" -> 100
      [] OTHER -> 150

FracMul(x, n, d) == Frac(x[1] * n, x[2] * d)

\* result.gastos_pos_entrega: bairro -> room key -> sum of vgv * percentualCBIC
\* over the rows of the sale statuses
crossGastos(data) ==
    LET idx == {i \in DOMAIN data : data[i].BAIRRO # "" /\ data[i].OFERTA_VENDA \in vendaTypes}
    IN [b \in {data[i].BAIRRO : i \in idx} |->
          [q \in {qVal(data[i].QTD_QUARTOS) : i \in {j \in idx : data[j].BAIRRO = b}} |->
              Frac(SumSeq([i \in DOMAIN data |->
                             IF i \in idx /\ data[i].BAIRRO = b /\ qVal(data[i].QTD_QUARTOS) = q
                             THEN data[i].AREA_QUANTIDADE_VALOR * getPercentualPadrao(getPadraoRegiao(b))
                             ELSE 0]),
                   1000)]]

generateCrossData(data) ==
    LET oferta == crossQuantidade(data, ofertaTypes)
        venda == crossQuantidade(data, vendaTypes)
        ivvData ==
            [b \in DOMAIN venda \cup DOMAIN oferta |->
                LET vq == IF b \in DOMAIN venda THEN DOMAIN venda[b] ELSE {}
                    oq == IF b \in DOMAIN oferta THEN DOMAIN oferta[b] ELSE {}
                IN [q \in vq \cup oq |->
                      IF q \in vq THEN crossIVV(venda[b][q], crossCell(oferta, b, q)) ELSE Zero]]
        rawOferta == crossRaw(data, ofertaTypes)
        rawVenda == crossRaw(data, vendaTypes)
    IN [ivv_por_regiao |-> ivvData,
        oferta_quantidade |-> oferta,
        venda_quantidade |-> venda,
        valor_ponderado_oferta |-> computeAvg(rawOferta),
        valor_ponderado_venda |-> computeAvg(rawVenda),
        oferta_m2 |-> crossSum(data, ofertaTypes, "AREA_QUANTIDADE"),
        venda_m2 |-> crossSum(data, vendaTypes, "AREA_QUANTIDADE"),
        gastos_pos_entrega |-> crossGastos(data),
        _rawOferta |-> rawOferta,
        _rawVenda |-> rawVenda]

\* a JS number that a condition takes as true
truthy(x) == x # NaN /\ x[1] # 0

\* the 'IVV por região' table: cells, 'IVV Médio' column, 'Total Geral' row
renderIVVTable(cross) ==
    LET tableData == cross.ivv_por_regiao
        bairros == DOMAIN tableData
        rooms == UNION {DOMAIN tableData[b] : b \in bairros} \ {""}
        vendas(bs, qs) ==
            SumOver([x \in bs \X qs |-> crossCell(cross.venda_quantidade, x[1], x[2])], bs \X qs)
        ofertas(bs, qs) ==
            SumOver([x \in bs \X qs |-> crossCell(cross.oferta_quantidade, x[1], x[2])], bs \X qs)
        total(bs, qs) ==
            IF ofertas(bs, qs) > 0 THEN Frac(vendas(bs, qs) * 100, ofertas(bs, qs)) ELSE Zero
    IN [bairros |-> bairros,
        rooms |-> rooms,
        cells |-> [b \in bairros |->
                     [q \in rooms |->
                        IF q \in DOMAIN tableData[b] /\ truthy(tableData[b][q])
                        THEN tableData[b][q] ELSE Zero]],
        rowTotals |-> [b \in bairros |-> total({b}, rooms)],
        colTotals |-> [q \in rooms |-> total(bairros, {q})],
        grandTotal |-> total(bairros, rooms)]

\* the tables of units and of m2: cells, 'Total' column, 'Total Geral' row
renderSumTable(tableData) ==
    LET bairros == DOMAIN tableData
        rooms == UNION {DOMAIN tableData[b] : b \in bairros} \ {""}
        sum(bs, qs) == SumOver([x \in bs \X qs |-> crossCell(tableData, x[1], x[2])], bs \X qs)
    IN [bairros |-> bairros,
        rooms |-> rooms,
        cells |-> [b \in bairros |-> [q \in rooms |-> crossCell(tableData, b, q)]],
        rowTotals |-> [b \in bairros |-> sum({b}, rooms)],
        colTotals |-> [q \in rooms |-> sum(bairros, {q})],
        grandTotal |-> sum(bairros, rooms)]

\* the totals of the weighted value as the mean of the cells
renderPonderadoTable_meanOfCells(tableData, raw) ==
    LET bairros == DOMAIN tableData
        rooms == UNION {DOMAIN tableData[b] : b \in bairros} \ {""}
        cell(b, q) ==
            IF q \in DOMAIN tableData[b] /\ truthy(tableData[b][q]) THEN tableData[b][q] ELSE Zero
        total(bs, qs) ==
            IF bs \X qs = {} THEN Zero
            ELSE FracMul(FracSumOver([x \in bs \X qs |-> cell(x[1], x[2])], bs \X qs),
                         1, Cardinality(bs \X qs))
    IN [bairros |-> bairros,
        rooms |-> rooms,
        cells |-> [b \in bairros |-> [q \in rooms |-> cell(b, q)]],
        rowTotals |-> [b \in bairros |-> total({b}, rooms)],
        colTotals |-> [q \in rooms |-> total(bairros, {q})],
        grandTotal |-> total(bairros, rooms)]

\* the tables of the weighted value: the cells are the quotients of
\* computeAvg, the totals the quotient of the summed raw totals
renderPonderadoTable(tableData, raw) ==
    LET bairros == DOMAIN tableData
        rooms == UNION {DOMAIN tableData[b] : b \in bairros} \ {""}
        has(x) == x[1] \in DOMAIN raw /\ x[2] \in DOMAIN raw[x[1]]
        valor(bs, qs) ==
            SumOver([x \in bs \X qs |-> IF has(x) THEN raw[x[1]][x[2]].totalValor ELSE 0], bs \X qs)
        area(bs, qs) ==
            SumOver([x \in bs \X qs |-> IF has(x) THEN raw[x[1]][x[2]].totalArea ELSE 0], bs \X qs)
        total(bs, qs) == IF area(bs, qs) > 0 THEN Frac(valor(bs, qs), area(bs, qs)) ELSE Zero
    IN [bairros |-> bairros,
        rooms |-> rooms,
        cells |-> [b \in bairros |->
                     [q \in rooms |->
                        IF q \in DOMAIN tableData[b] /\ truthy(tableData[b][q])
                        THEN tableData[b][q] ELSE Zero]],
        rowTotals |-> [b \in bairros |-> total({b}, rooms)],
        colTotals |-> [q \in rooms |-> total(bairros, {q})],
        grandTotal |-> total(bairros, rooms)]

\* the table of the spend after delivery: one line per bairro, summed over
\* every room key of the bairro
renderGastosTable(tableData) ==
    LET bairros == DOMAIN tableData
        bairroGastos(b) == FracSumOver(tableData[b], DOMAIN tableData[b])
        percentual(b) == getPercentualPadrao(getPadraoRegiao(b))
    IN [bairros |-> bairros,
        padrao |-> [b \in bairros |-> getPadraoRegiao(b)],
        percentual |-> [b \in bairros |-> percentual(b)],
        gastos |-> [b \in bairros |-> bairroGastos(b)],
        vgv |-> [b \in bairros |-> FracMul(bairroGastos(b), 1000, percentual(b))],
        totalGastos |-> FracSumOver([b \in bairros |-> bairroGastos(b)], bairros)]

\* the categories of spend and their shares of the sale value by standard,
\* in thousandths
categorias ==
    << [nome |-> "Obras Habitacoes", alto |-> 43, medio |-> 30, popular |-> 35],
       [nome |-> "Cama Mesa Banho", alto |-> 13, medio |-> 6, popular |-> 3],
       [nome |-> "Artigos Decoracao", alto |-> 30, medio |-> 23, popular |-> 8],
       [nome |-> "Moveis Planejados", alto |-> 30, medio |-> 15, popular |-> 7],
       [nome |-> "Eletroeletronicos", alto |-> 18, medio |-> 15, popular |-> 4],
       [nome |-> "Instalacoes Eletricas", alto |-> 19, medio |-> 11, popular |-> 16],
       [nome |-> "Mobiliario", alto |-> 63, medio |-> 30, popular |-> 22],
       [nome |-> "Outros Servicos", alto |-> 34, medio |-> 20, popular |-> 5] >>

\* the share of the first category alone, whatever the standard
percentualCategoria_first(categoria, padrao) == categorias[1].medio

\* the share of a category for a standard: medio unless Alto or Popular
percentualCategoria(categoria, padrao) ==
    CASE padrao = "Alto" -> categoria.alto
      [] padrao = "Popular" -> categoria.popular
      [] OTHER -> categoria.medio

\* the table of the spend by category: the sale value of a region is
\* rebuilt from its spend after delivery and the category shares applied to it
renderCategoriaTable(cross) ==
    LET gastosData == cross.gastos_pos_entrega
        regioes == DOMAIN gastosData
        gastosRegiao(r) == FracSumOver(gastosData[r], DOMAIN gastosData[r])
        vgvReconstruido(r) ==
            FracMul(gastosRegiao(r), 1000, getPercentualPadrao(getPadraoRegiao(r)))
        valorCategoria(r, c) ==
            FracMul(vgvReconstruido(r), percentualCategoria(categorias[c], getPadraoRegiao(r)), 1000)
    IN [regioes |-> regioes,
        valores |-> [r \in regioes |-> [c \in DOMAIN categorias |-> valorCategoria(r, c)]],
        totalLinha |-> [r \in regioes |->
                          FracSumOver([c \in DOMAIN categorias |-> valorCategoria(r, c)],
                                      DOMAIN categorias)],
        totaisPorCategoria |-> [c \in DOMAIN categorias |->
                                  FracSumOver([r \in regioes |-> valorCategoria(r, c)], regioes)]]

NoCrossTables == [shown |-> FALSE]

renderCrossTables(data) ==
    IF Len(data) = 0 THEN NoCrossTables
    ELSE LET cross == generateCrossData(data)
         IN [shown |-> TRUE, cross |-> cross, ivv_por_regiao |-> renderIVVTable(cross),
             oferta_quantidade |-> renderSumTable(cross.oferta_quantidade),
             venda_quantidade |-> renderSumTable(cross.venda_quantidade),
             valor_ponderado_oferta |->
                 renderPonderadoTable(cross.valor_ponderado_oferta, cross._rawOferta),
             valor_ponderado_venda |->
                 renderPonderadoTable(cross.valor_ponderado_venda, cross._rawVenda),
             oferta_m2 |-> renderSumTable(cross.oferta_m2),
             venda_m2 |-> renderSumTable(cross.venda_m2),
             gastos_pos_entrega |-> renderGastosTable(cross.gastos_pos_entrega),
             gastos_por_categoria |-> renderCategoriaTable(cross)]

\* the period radio (one period, or none when there is no radio to tick) and
\* the ticked value brackets
filterCrossTabsData(data, filters) ==
    LET byPeriod ==
            IF filters.periodo # NoPeriod
            THEN SelectSeq(data, LAMBDA r : r.ANO_MES # NoPeriod /\ r.ANO_MES = filters.periodo)
            ELSE data
    IN IF filters.faixaValor # {}
       THEN SelectSeq(byPeriod, LAMBDA r : r.Faixa_Valor \in filters.faixaValor)
       ELSE byPeriod

applyCrossTabsFilters(data, filters) == renderCrossTables(filterCrossTabsData(data, filters))

\* the periods the radio offers
crossPeriods(data) == {data[i].ANO_MES : i \in DOMAIN data} \ {NoPeriod}

\* ------------------------------------------------------------------ state
VARIABLES
    residential_data,   \* the rows of the residential sheet, as loaded
    pc,                 \* "load": reading the sheet; "html": page generated; "page": page open
    rawData,            \* rawData.residencial, the rows embedded in the page
    launchCounts,       \* get_public_launch_counts, embedded as projectsCount*
    residential_details,\* get_private_launch_details, written to the TXT report
    tables,             \* what updateTables last put in tablesContainer
    crossTabsData,      \* crossTabsData.residencial, the rows embedded for the cross-tabs
    periodo,            \* the period radio that is ticked, NoPeriod when none is
    crossTables,        \* what renderCrossTables last put in crossTablesContainer
    call,               \* a helper called on its own: its name and the values passed and returned
    lancamentos_residenciais,   \* the TXT report of the residential launches
    user_profiles,      \* the users of user_profiles.json
    _active_sessions,   \* the server's map email -> session_id (NoSession: no entry)
    session,            \* the Flask session cookie of each browser
    response,           \* the last response each browser received
    pending,            \* update_user_last_access in progress for a browser's request
    managers,           \* self.config["users"] of each UserPermissionManager instance
    uuid                \* the number of session ids issued

\* the authentication server and the permission managers
serverVars == <<user_profiles, _active_sessions, session, response, pending, managers, uuid>>

\* the variables outside the page and its cross-tabs
\* the generator's process
generatorVars == <<current_user, hashseed>>

\* the commercial sheet and the filters of the page
viewVars == <<commercial_data, rawDataComercial, checked, selectedBairros>>

otherVars == <<lancamentos_residenciais, generatorVars, viewVars, viewVars, serverVars>>

vars == <<residential_data, pc, rawData, launchCounts, residential_details, tables,
          crossTabsData, periodo, crossTables, call, otherVars>>

Row(p, s, q, a, v, b, r, n, e) ==
    [ANO_MES |-> p, OFERTA_VENDA |-> s, QUANTIDADE |-> q, AREA_QUANTIDADE |-> a,
     AREA_QUANTIDADE_VALOR |-> v, BAIRRO |-> b, QTD_QUARTOS |-> r,
     EMPREENDIMENTO |-> n, EMPRESA |-> e]

\* rows of the period-aggregation scenarios
AggRow(p, s, q, a, v) == Row(p, s, q, a, v, "GAMA", 2, <<"Alfa">>, "E1")

AggRows ==
    {AggRow(p, "OFERTADOS DISPONIVEIS", 1, 2, 6) : p \in {202101, 202104, 202201}}
    \cup {AggRow(p, "VENDIDOS", 1, 1, 2) : p \in {202101, 202104, 202201}}
    \cup {AggRow(202102, "OFERTADOS LANCAMENTOS", 2, 1, 1),
          AggRow(202104, "DISTRATO", 1, 1, 1),
          AggRow(202104, "RESERVADO", 1, 1, 1),
          AggRow(202104, "OFERTADOS DISPONIVEIS", 3, 0, 0),
          AggRow(202102, "VENDIDOS - LANCADOS E VENDIDOS", 3, 2, 0)}

\* rows of the launch-counting scenarios
LaunchProjects ==
    {[name |-> <<"Residencial", "Alfa", "Bloco", "A">>, units |-> 10],
     [name |-> <<"Alfa", "Bloco", "B">>, units |-> 5],
     [name |-> <<"Beta">>, units |-> 3]}

LaunchRow(p, s, q, b, n, e) == Row(p, s, q, 1, 1, b, 2, n, e)

LaunchRows ==
    {LaunchRow(p, "OFERTADOS LANCAMENTOS", x.units, "GAMA", x.name, "E1") :
        p \in {202101, 202102, 202201}, x \in LaunchProjects}
    \cup {LaunchRow(202102, "OFERTADOS LANCAMENTOS", 0, "GAMA", <<"Beta">>, "E1"),
          LaunchRow(202101, "OFERTADOS DISPONIVEIS", 4, "GAMA", <<"Beta">>, "E1"),
          LaunchRow(202102, "OFERTADOS LANCAMENTOS", 7, "GAMA", <<"Alfa">>, "E2"),
          LaunchRow(202101, "OFERTADOS LANCAMENTOS", 2, "GUARA", <<"Alfa", "Bloco", "B">>, "E1"),
          LaunchRow(202101, "OFERTADOS LANCAMENTOS", 1, "GAMA", NoName, "E1")}

\* rows of the project-count scenarios: two projects launched in months of
\* two quarters of a year and of another year
CountRows ==
    {LaunchRow(p, "OFERTADOS LANCAMENTOS", 1, "GAMA", n, "E1") :
        p \in {202101, 202102, 202104, 202201}, n \in {<<"Alfa">>, <<"Beta">>}}
    \cup {LaunchRow(202104, "OFERTADOS LANCAMENTOS", 0, "GAMA", <<"Beta">>, "E2"),
          LaunchRow(202104, "OFERTADOS LANCAMENTOS", 2, "GUARA", <<"Alfa">>, "E1")}

NoCounts == get_public_launch_counts(<<>>)

NoCall == [fn |-> "none", values |-> <<>>]

\* no report written yet
NoReport == [yearly_sum |-> <<>>, yearly_projects |-> <<>>]

\* ------------------------------------------------ authentication server
Emails == {"ana@x.com", "bia@x.com"}
Browsers == {"b1", "b2"}
Managers == {"m1", "m2"}

\* user_profiles.json as installed: every user active, never seen
InstalledProfiles ==
    [e \in Emails |->
        [active |-> TRUE, profile |-> IF e = "ana@x.com" THEN "admin" ELSE "viewer",
         last_access |-> 0]]

\* the dashboard files of the templates folder: none for the viewer profile
templates == {"dashboard_admin.html", "dashboard.html"}

NoUser == ""
NoSession == 0
NoSessionCookie == [user |-> NoUser, session_id |-> NoSession]
NoPending == [path |-> ""]

\* users.get(email, {}).get('active', False)
is_user_authorized(users, email) == email \in DOMAIN users /\ users[email].active

public_paths == <<"/", "/login", "/authorize", "/acesso_negado", "/ping", "/static">>

\* str.startswith between a request path and a public path: every request
\* path starts with "/"
startswith(path, prefix) == prefix = "/" \/ path = prefix

_is_current_session_active(sessions, user_email, current_session_id) ==
    user_email \in DOMAIN sessions /\ sessions[user_email] = current_session_id

\* before_request: the response it returns ("" when the request goes on to
\* its route) and the session it leaves
_enforce_single_session(path, cookie, sessions) ==
    IF \E i \in DOMAIN public_paths : startswith(path, public_paths[i])
    THEN [response |-> "", session |-> cookie]
    ELSE IF cookie.user = NoUser
    THEN [response |-> "redirect:/login", session |-> cookie]
    ELSE IF cookie.session_id = NoSession
    THEN [response |-> "redirect:/login", session |-> NoSessionCookie]
    ELSE IF ~_is_current_session_active(sessions, cookie.user, cookie.session_id)
    THEN [response |-> "redirect:/login", session |-> NoSessionCookie]
    ELSE [response |-> "", session |-> cookie]

\* what a protected route sends for a profile
routeResponse(path, user_profile) ==
    IF path = "/debug/profile" THEN "debug:" \o user_profile
    ELSE IF ("dashboard_" \o user_profile \o ".html") \in templates
    THEN "dashboard_" \o user_profile \o ".html"
    ELSE "dashboard.html"

ServerInit ==
    /\ user_profiles = InstalledProfiles
    /\ _active_sessions = [e \in Emails |-> NoSession]
    /\ session = [b \in Browsers |-> NoSessionCookie]
    /\ response = [b \in Browsers |-> ""]
    /\ pending = [b \in Browsers |-> NoPending]
    /\ managers = [m \in Managers |-> InstalledProfiles]
    /\ uuid = 0

\* a generator made without user_email
NoCurrentUser == [email |-> NoUser, profile |-> ""]

\* no checkbox ticked
NoChecked == [faixaValor |-> {}, faixaArea |-> {}, estagioObra |-> {}, bairro |-> {}, quartos |-> {}]

OtherInit ==
    /\ lancamentos_residenciais = NoReport
    /\ current_user = NoCurrentUser
    /\ hashseed = 0
    /\ commercial_data = <<>>
    /\ rawDataComercial = <<>>
    /\ checked = NoChecked
    /\ selectedBairros = {}
    /\ ServerInit

Init ==
    /\ residential_data = <<>>
    /\ pc = "load"
    /\ rawData = <<>>
    /\ launchCounts = NoCounts
    /\ residential_details = <<>>
    /\ tables = NoTables
    /\ crossTabsData = <<>>
    /\ periodo = NoPeriod
    /\ crossTables = NoCrossTables
    /\ OtherInit
    /\ call = NoCall

\* load_data: one more row of the sheet
LoadRow(row) ==
    /\ pc = "load"
    /\ Len(residential_data) < MaxRows
    /\ residential_data' = Append(residential_data, row)
    /\ UNCHANGED <<pc, rawData, launchCounts, residential_details, tables,
                   crossTabsData, periodo, crossTables, call, otherVars>>

get_private_launch_details(df) == get_projects_details(df)

\* the (month, empresa, bairro, empreendimento) entries of the months, the
\* months taken in ascending order as the details list them
RECURSIVE yearEntries(_, _)
yearEntries(projects_monthly, months) ==
    IF months = {} THEN <<>>
    ELSE LET p == CHOOSE x \in months : \A y \in months : x <= y
         IN [i \in DOMAIN projects_monthly[p] |->
                <<p % 100, projects_monthly[p][i][2], projects_monthly[p][i][3],
                  projects_monthly[p][i][1]>>]
            \o yearEntries(projects_monthly, months \ {p})

\* yearly_sum counting the months of a year that have launches
aggregate_projects_to_years_with_list_months(projects_monthly) ==
    LET years == {p \div 100 : p \in DOMAIN projects_monthly}
        monthsOf(y) == {p \in DOMAIN projects_monthly : p \div 100 = y}
    IN [yearly_sum |-> [y \in years |-> Cardinality(monthsOf(y))],
        yearly_projects |-> [y \in years |-> yearEntries(projects_monthly, monthsOf(y))]]

\* (yearly_sum, yearly_projects), as returned and as written to the TXT file
\* (the file lists the entries of a year sorted; the order is not modelled)
aggregate_projects_to_years_with_list(projects_monthly) ==
    LET years == {p \div 100 : p \in DOMAIN projects_monthly}
        monthsOf(y) == {p \in DOMAIN projects_monthly : p \div 100 = y}
    IN [yearly_sum |-> [y \in years |->
                          SumOver([p \in monthsOf(y) |-> Len(projects_monthly[p])], monthsOf(y))],
        yearly_projects |-> [y \in years |-> yearEntries(projects_monthly, monthsOf(y))]]

generate_private_txt_report(details_data) == aggregate_projects_to_years_with_list(details_data)

\* run, after load_data: the page with its rows and launch counts, then the TXT details
GenerateDashboard ==
    /\ pc = "load"
    /\ pc' = "html"
    /\ rawData' = prepare_data_for_json(residential_data)
    /\ launchCounts' = get_public_launch_counts(residential_data)
    /\ crossTabsData' = prepare_crosstabs_data_for_json(residential_data)
    /\ residential_details' = get_private_launch_details(residential_data)
    /\ lancamentos_residenciais' = generate_private_txt_report(residential_details')
    /\ rawDataComercial' = prepare_data_for_json(commercial_data)
    /\ UNCHANGED <<residential_data, tables, periodo, crossTables, call, generatorVars,
                   commercial_data, checked, selectedBairros, serverVars>>

\* countsToUse[key] || 0 beside each value of a launch series
empreendimentos(data, countsToUse) ==
    [k \in DOMAIN data |-> IF k \in DOMAIN countsToUse THEN countsToUse[k] ELSE 0]

\* the '[N]' of the launch tables, read from the counts of the view's own sheet
lancamentosEmpreendimentos_ofView(lancamentosPeriods) ==
    LET counts == IF pc = "comercial"
                  THEN get_public_launch_counts(commercial_data)
                  ELSE launchCounts
    IN [monthly |-> empreendimentos(lancamentosPeriods.monthly, counts.monthly_projects),
        quarterly |-> empreendimentos(lancamentosPeriods.quarterly, counts.quarterly_projects),
        yearly |-> empreendimentos(lancamentosPeriods.yearly, counts.yearly_projects)]

\* the '[N]' of the three launch tables: enterpriseData || projectsData is
\* projectsCountEmpreendimentos.residencial*, an object being truthy
lancamentosEmpreendimentos(lancamentosPeriods) ==
    [monthly |-> empreendimentos(lancamentosPeriods.monthly, launchCounts.monthly_projects),
     quarterly |-> empreendimentos(lancamentosPeriods.quarterly, launchCounts.quarterly_projects),
     yearly |-> empreendimentos(lancamentosPeriods.yearly, launchCounts.yearly_projects)]

updateTables(data) ==
    IF Len(data) = 0 THEN NoTables
    ELSE [shown |-> TRUE, series |-> tableSeries(data),
          empreendimentos |->
              lancamentosEmpreendimentos(calculatePeriodAggregations(data, lancamentoTypes, FALSE))]

\* the page opens: updateTables(rawData.residencial)
PageLoad ==
    /\ pc = "html"
    /\ pc' = "page"
    /\ tables' = updateTables(rawData)
    /\ UNCHANGED <<residential_data, rawData, launchCounts, residential_details,
                   crossTabsData, periodo, crossTables, call, otherVars>>

\* the filters the cross-tab view reads: the ticked period, no value bracket ticked
getCrossTabsFilters(selected) == [periodo |-> selected, faixaValor |-> {}]

Max(S) == CHOOSE x \in S : \A y \in S : y <= x

\* switchView('crosstabs'): populateCrossTabsFilters ticks the most recent
\* period and, through updatePeriodSelection, renders the cross-tabs
SwitchToCrossTabs ==
    /\ pc = "page"
    /\ pc' = "crosstabs"
    /\ IF crossPeriods(crossTabsData) = {}
       THEN UNCHANGED <<periodo, crossTables>>
       ELSE /\ periodo' = Max(crossPeriods(crossTabsData))
            /\ crossTables' = applyCrossTabsFilters(crossTabsData, getCrossTabsFilters(periodo'))
    /\ UNCHANGED <<residential_data, rawData, launchCounts, residential_details, tables,
                   crossTabsData, call, otherVars>>

\* the user ticks another period: updatePeriodSelection
updatePeriodSelection(selected) ==
    /\ pc = "crosstabs"
    /\ selected \in crossPeriods(crossTabsData)
    /\ selected # periodo
    /\ periodo' = selected
    /\ crossTables' = applyCrossTabsFilters(crossTabsData, getCrossTabsFilters(selected))
    /\ UNCHANGED <<residential_data, pc, rawData, launchCounts, residential_details, tables,
                   crossTabsData, call, otherVars>>

Next ==
    \/ \E row \in AggRows : LoadRow(row)
    \/ GenerateDashboard
    \/ PageLoad

Spec == Init /\ [][Next]_vars

NextLaunch ==
    \/ \E row \in LaunchRows : LoadRow(row)
    \/ GenerateDashboard
    \/ PageLoad

SpecLaunch == Init /\ [][NextLaunch]_vars

\* rows of the cross-tab scenarios
CrossRow(p, s, q, b, r) == Row(p, s, q, 1, 1, b, r, <<"Alfa">>, "E1")

CrossRows ==
    {CrossRow(202101, "OFERTADOS DISPONIVEIS", 2, b, r) : b \in {"ASA SUL", "GAMA"}, r \in {1, 5}}
    \cup {CrossRow(202101, "VENDIDOS", 1, "ASA SUL", 1),
          CrossRow(202101, "VENDIDOS", 1, "GAMA", 5),
          CrossRow(202101, "VENDIDOS", 1, "GAMA", NoRooms),
          CrossRow(202101, "OFERTADOS LANCAMENTOS", 0, "GAMA", 1),
          CrossRow(202102, "VENDIDOS - LANCADOS E VENDIDOS", 1, "ASA SUL", 1),
          CrossRow(202102, "OFERTADOS DISPONIVEIS", 2, "GAMA", 1),
          CrossRow(202101, "OFERTADOS DISPONIVEIS", 2, "", 1)}

\* rows of the cross-tabs of values: bairros of the three building standards
\* and of none, rows without rooms, without value, of no sale or offer status
ValueRow(p, s, q, a, v, b, r) == Row(p, s, q, a, v, b, r, <<"Alfa">>, "E1")

ValueRows ==
    {ValueRow(202101, "OFERTADOS DISPONIVEIS", 2, 2, 6, "ASA SUL", 1),
     ValueRow(202101, "OFERTADOS DISPONIVEIS", 1, 1, 5, "ASA SUL", 2),
     ValueRow(202101, "OFERTADOS LANCAMENTOS", 1, 2, 0, "ASA SUL", 1),
     ValueRow(202101, "VENDIDOS", 1, 1, 4, "ASA SUL", 1),
     ValueRow(202101, "VENDIDOS", 1, 2, 2, "ASA SUL", NoRooms),
     ValueRow(202101, "VENDIDOS", 1, 1, 2, "GAMA", 2),
     ValueRow(202101, "OFERTADOS DISPONIVEIS", 1, 1, 1, "GAMA", 2),
     ValueRow(202101, "VENDIDOS", 2, 1, 3, "TAGUATINGA NORTE", 1),
     ValueRow(202101, "VENDIDOS - LANCADOS E VENDIDOS", 1, 1, 1, "LAGO SUL", 4),
     ValueRow(202101, "DISTRATO", 1, 1, 9, "GAMA", 1),
     ValueRow(202102, "VENDIDOS", 1, 3, 3, "GAMA", 1)}

\* the page and its cross-tabs
pageVarsOnly == <<residential_data, pc, rawData, launchCounts, residential_details, tables,
                  crossTabsData, periodo, crossTables>>

\* everything but the helper call
pageVars == <<residential_data, pc, rawData, launchCounts, residential_details, tables,
              crossTabsData, periodo, crossTables, otherVars>>

\* the words of the project names of the normalisation scenarios
NameWords == {"Res", "Residencial", "Empreendimento", "EMPRENDIMENTO", "Alfa", "Bloco", "A", "TIPO"}

ProjectNames ==
    UNION {[1..n -> NameWords] : n \in 1..MaxWords} \cup {NoName, <<"EMP_123">>}

InitName ==
    /\ residential_data = <<>>
    /\ pc = "load"
    /\ rawData = <<>>
    /\ launchCounts = NoCounts
    /\ residential_details = <<>>
    /\ tables = NoTables
    /\ crossTabsData = <<>>
    /\ periodo = NoPeriod
    /\ crossTables = NoCrossTables
    /\ OtherInit
    /\ call \in {[fn |-> "extract_empreendimento_name", values |-> <<name>>] : name \in ProjectNames}

\* extract_empreendimento_name on a frame whose one row carries the last name as
\* EMPREENDIMENTO; the EMPREENDIMENTO_AGRUPADO it returns is recorded
NormalizeName ==
    /\ call.fn = "extract_empreendimento_name"
    /\ Len(call.values) <= MaxPasses
    /\ LET df == <<[EMPREENDIMENTO |-> call.values[Len(call.values)]]>>
       IN call' = [call EXCEPT !.values = Append(@, extract_empreendimento_name(df)[1].EMPREENDIMENTO_AGRUPADO)]
    /\ UNCHANGED pageVars

NextName == NormalizeName

SpecName == InitName /\ [][NextName]_vars

\* ------------------------------------------------------------ the brackets
\* float comparisons of numbers held as fractions; every comparison with NaN
\* is false and float('inf') is above every finite number
FracLT(x, y) ==
    /\ x # NaN /\ y # NaN
    /\ x # Infinity
    /\ (y = Infinity \/ x[1] * y[2] < y[1] * x[2])

FracLE(x, y) == x # NaN /\ y # NaN /\ (x = y \/ FracLT(x, y))

Faixa(min, max, label) == [min |-> min, max |-> max, label |-> label]

\* the labels are written in ASCII: "-" for the en dash, ">=" for the sign
FAIXAS_VALOR ==
    << Faixa(<<0, 1>>, <<350000, 1>>, "< 350.000"),
       Faixa(<<350000, 1>>, <<500000, 1>>, "350.000 - 499.999"),
       Faixa(<<500000, 1>>, <<700000, 1>>, "500.000 - 699.999"),
       Faixa(<<700000, 1>>, <<1000000, 1>>, "700.000 - 999.999"),
       Faixa(<<1000000, 1>>, <<2000000, 1>>, "1.000.000 - 1.999.999"),
       Faixa(<<2000000, 1>>, Infinity, ">= 2.000.000") >>

FAIXAS_AREA ==
    << Faixa(<<0, 1>>, <<40, 1>>, "Ate 40m2"),
       Faixa(<<41, 1>>, <<60, 1>>, "41 a 60m2"),
       Faixa(<<61, 1>>, <<80, 1>>, "61 a 80m2"),
       Faixa(<<81, 1>>, <<100, 1>>, "81 a 100m2"),
       Faixa(<<101, 1>>, <<120, 1>>, "101 a 120m2"),
       Faixa(<<121, 1>>, <<150, 1>>, "121 a 150m2"),
       Faixa(<<151, 1>>, <<175, 1>>, "151 a 175m2"),
       Faixa(<<176, 1>>, <<200, 1>>, "176 a 200m2"),
       Faixa(<<201, 1>>, Infinity, "Mais de 200m2") >>

\* the label of the first of the brackets that admit the number, "N/A" if none
firstFaixa(faixas, hits) ==
    IF hits = {} THEN "N/A"
    ELSE faixas[CHOOSE i \in hits : \A j \in hits : i <= j].label

categorize_value_upperInclusive(value) ==
    IF value = NaN THEN "N/A"
    ELSE firstFaixa(FAIXAS_VALOR,
                    {i \in DOMAIN FAIXAS_VALOR :
                        FracLE(FAIXAS_VALOR[i].min, value) /\ FracLE(value, FAIXAS_VALOR[i].max)})

categorize_value(value) ==
    IF value = NaN THEN "N/A"
    ELSE firstFaixa(FAIXAS_VALOR,
                    {i \in DOMAIN FAIXAS_VALOR :
                        FracLE(FAIXAS_VALOR[i].min, value) /\ FracLT(value, FAIXAS_VALOR[i].max)})

categorize_area(area) ==
    IF area = NaN THEN "N/A"
    ELSE firstFaixa(FAIXAS_AREA,
                    {i \in DOMAIN FAIXAS_AREA :
                        FracLE(FAIXAS_AREA[i].min, area) /\ FracLE(area, FAIXAS_AREA[i].max)})

\* the values and areas of the bracket scenarios: a missing one, and the
\* numbers within MaxOffset half units of a bracket bound
Around(faixas) ==
    {Frac(2 * faixas[i].min[1] + k, 2) : i \in DOMAIN faixas, k \in -MaxOffset..MaxOffset}
    \cup {Frac(2 * faixas[i].max[1] + k, 2) :
            i \in {j \in DOMAIN faixas : IsNumber(faixas[j].max)}, k \in -MaxOffset..MaxOffset}
    \cup {NaN}

InitFaixa ==
    /\ residential_data = <<>>
    /\ pc = "load"
    /\ rawData = <<>>
    /\ launchCounts = NoCounts
    /\ residential_details = <<>>
    /\ tables = NoTables
    /\ crossTabsData = <<>>
    /\ periodo = NoPeriod
    /\ crossTables = NoCrossTables
    /\ OtherInit
    /\ call \in {[fn |-> "categorize_value", values |-> <<v>>] : v \in Around(FAIXAS_VALOR)}
                \cup {[fn |-> "categorize_area", values |-> <<a>>] : a \in Around(FAIXAS_AREA)}

CategorizeValue ==
    /\ call.fn = "categorize_value"
    /\ Len(call.values) = 1
    /\ call' = [call EXCEPT !.values = Append(@, categorize_value(call.values[1]))]
    /\ UNCHANGED pageVars

CategorizeArea ==
    /\ call.fn = "categorize_area"
    /\ Len(call.values) = 1
    /\ call' = [call EXCEPT !.values = Append(@, categorize_area(call.values[1]))]
    /\ UNCHANGED pageVars

NextFaixa == CategorizeValue \/ CategorizeArea

SpecFaixa == InitFaixa /\ [][NextFaixa]_vars

\* rows of the missing-period scenarios
PeriodRows ==
    {AggRow(NoPeriod, s, 1, 2, 6) :
        s \in {"OFERTADOS DISPONIVEIS", "VENDIDOS", "OFERTADOS LANCAMENTOS", "DISTRATO"}}
    \cup {AggRow(202101, "OFERTADOS DISPONIVEIS", 2, 2, 6),
          AggRow(202101, "VENDIDOS", 1, 1, 2),
          AggRow(202102, "OFERTADOS LANCAMENTOS", 2, 1, 1),
          AggRow(202212, "VENDIDOS", 1, 1, 2)}

NextPeriod ==
    \/ \E row \in PeriodRows : LoadRow(row)
    \/ GenerateDashboard
    \/ PageLoad

SpecPeriod == Init /\ [][NextPeriod]_vars

NextCross ==
    \/ \E row \in CrossRows : LoadRow(row)
    \/ GenerateDashboard
    \/ PageLoad
    \/ SwitchToCrossTabs
    \/ \E selected \in Periods : updatePeriodSelection(selected)

SpecCross == Init /\ [][NextCross]_vars

\* ----------------------------------------------- the server's requests
\* /authorize: the callback of a login that Google answered with user_email
authorize(b, user_email) ==
    /\ pending[b] = NoPending
    /\ IF ~is_user_authorized(user_profiles, user_email)
       THEN /\ session' = [session EXCEPT ![b] = NoSessionCookie]
            /\ response' = [response EXCEPT ![b] = "redirect:/acesso_negado"]
            /\ UNCHANGED <<_active_sessions, uuid>>
       ELSE /\ uuid < MaxSessions
            /\ uuid' = uuid + 1
            /\ session' = [session EXCEPT ![b] = [user |-> user_email, session_id |-> uuid']]
            /\ _active_sessions' = [_active_sessions EXCEPT ![user_email] = uuid']
            /\ response' = [response EXCEPT ![b] = "redirect:/dashboard"]
    /\ UNCHANGED <<pageVarsOnly, call, lancamentos_residenciais, generatorVars, viewVars, user_profiles, pending, managers>>

\* /dashboard and /debug/profile, up to the read of update_user_last_access:
\* before_request, the test of the session, get_user_profile
protected(b, path) ==
    /\ pending[b] = NoPending
    /\ LET before == _enforce_single_session(path, session[b], _active_sessions)
           user_email == session[b].user
       IN IF before.response # ""
          THEN /\ session' = [session EXCEPT ![b] = before.session]
               /\ response' = [response EXCEPT ![b] = before.response]
               /\ UNCHANGED pending
          ELSE IF user_email = NoUser
          THEN /\ response' = [response EXCEPT
                                 ![b] = IF path = "/dashboard" THEN "redirect:/login" ELSE "401"]
               /\ UNCHANGED <<session, pending>>
          ELSE IF ~is_user_authorized(user_profiles, user_email)
          THEN /\ response' = [response EXCEPT ![b] = routeResponse(path, "viewer")]
               /\ UNCHANGED <<session, pending>>
          ELSE /\ pending' = [pending EXCEPT
                                ![b] = [path |-> path, user_email |-> user_email,
                                        profile |-> user_profiles[user_email].profile,
                                        config |-> user_profiles]]
               /\ UNCHANGED <<session, response>>
    /\ UNCHANGED <<pageVarsOnly, call, lancamentos_residenciais, generatorVars, viewVars, user_profiles,
                   _active_sessions, managers, uuid>>

\* the write of update_user_last_access, of what it read, and the response
\* of the route
update_user_last_access(b) ==
    /\ pending[b] # NoPending
    /\ user_profiles' = [pending[b].config EXCEPT ![pending[b].user_email].last_access = 1]
    /\ response' = [response EXCEPT ![b] = routeResponse(pending[b].path, pending[b].profile)]
    /\ pending' = [pending EXCEPT ![b] = NoPending]
    /\ UNCHANGED <<pageVarsOnly, call, lancamentos_residenciais, generatorVars, viewVars, _active_sessions, session,
                   managers, uuid>>

\* /logout
logout(b) ==
    /\ pending[b] = NoPending
    /\ LET before == _enforce_single_session("/logout", session[b], _active_sessions)
       IN IF before.response # ""
          THEN /\ session' = [session EXCEPT ![b] = before.session]
               /\ response' = [response EXCEPT ![b] = before.response]
               /\ UNCHANGED _active_sessions
          ELSE /\ _active_sessions' =
                     IF session[b].user # NoUser
                     THEN [_active_sessions EXCEPT ![session[b].user] = NoSession]
                     ELSE _active_sessions
               /\ session' = [session EXCEPT ![b] = NoSessionCookie]
               /\ response' = [response EXCEPT ![b] = "redirect:/"]
    /\ UNCHANGED <<pageVarsOnly, call, lancamentos_residenciais, generatorVars, viewVars, user_profiles, pending,
                   managers, uuid>>

\* ------------------------------------------------- the permission managers
\* UserPermissionManager(config_file): _load_config
UserPermissionManager(m) ==
    /\ managers' = [managers EXCEPT ![m] = user_profiles]
    /\ UNCHANGED <<pageVarsOnly, call, lancamentos_residenciais, generatorVars, viewVars, user_profiles,
                   _active_sessions, session, response, pending, uuid>>

\* deactivate_user(email) returning True: the instance's config, changed, is saved
deactivate_user(m, email) ==
    /\ email \in DOMAIN managers[m]
    /\ managers' = [managers EXCEPT ![m][email].active = FALSE]
    /\ user_profiles' = managers'[m]
    /\ UNCHANGED <<pageVarsOnly, call, lancamentos_residenciais, generatorVars, viewVars,
                   _active_sessions, session, response, pending, uuid>>

\* authenticate_user(email) returning True: last_access is set and the
\* instance's config saved
authenticate_user(m, email) ==
    /\ email \in DOMAIN managers[m]
    /\ managers[m][email].active
    /\ managers' = [managers EXCEPT ![m][email].last_access = 1]
    /\ user_profiles' = managers'[m]
    /\ UNCHANGED <<pageVarsOnly, call, lancamentos_residenciais, generatorVars, viewVars,
                   _active_sessions, session, response, pending, uuid>>

NextServer ==
    \/ \E b \in Browsers, user_email \in Emails \cup {"eva@x.com"} : authorize(b, user_email)
    \/ \E b \in Browsers, path \in {"/dashboard", "/debug/profile"} : protected(b, path)
    \/ \E b \in Browsers : update_user_last_access(b)
    \/ \E b \in Browsers : logout(b)
    \/ \E email \in Emails : deactivate_user("m1", email)

SpecServer == Init /\ [][NextServer]_vars

\* one browser against the server while the managers work on user_profiles.json
NextProfiles ==
    \/ \E user_email \in Emails : authorize("b1", user_email)
    \/ protected("b1", "/dashboard")
    \/ update_user_last_access("b1")
    \/ \E m \in Managers : UserPermissionManager(m)
    \/ \E m \in Managers, email \in Emails : deactivate_user(m, email)
    \/ \E m \in Managers, email \in Emails : authenticate_user(m, email)

SpecProfiles == Init /\ [][NextProfiles]_vars

NextCount ==
    \/ \E row \in CountRows : LoadRow(row)
    \/ GenerateDashboard

SpecCount == Init /\ [][NextCount]_vars

NextValue ==
    \/ \E row \in ValueRows : LoadRow(row)
    \/ GenerateDashboard
    \/ PageLoad
    \/ SwitchToCrossTabs
    \/ \E selected \in Periods : updatePeriodSelection(selected)

SpecValue == Init /\ [][NextValue]_vars

\* ==================================================================== claims
Generated == pc # "load"

\* a qualifying launch row: OFFER_LAUNCH, units > 0, period present, identity not N/A
Qualifies(row) ==
    /\ row.OFERTA_VENDA = "OFERTADOS LANCAMENTOS"
    /\ row.QUANTIDADE > 0
    /\ row.ANO_MES # NoPeriod
    /\ row.EMPREENDIMENTO_AGRUPADO # NoName

\* the periods of year y in which triple t has a qualifying row of rows
QualifyingPeriods(rows, y, t) ==
    {rows[i].ANO_MES : i \in {j \in DOMAIN rows :
        /\ Qualifies(rows[j])
        /\ rows[j].ANO_MES \div 100 = y
        /\ triple(rows[j]) = t}}

\* the places <<month, position>> of year y where the LaunchIndex lists triple t
Listings(y, t) ==
    {pi \in UNION {{<<p, i>> : i \in DOMAIN residential_details[p]} : p \in DOMAIN residential_details} :
        pi[1] \div 100 = y /\ residential_details[pi[1]][pi[2]] = t}

Years(rows) == {rows[i].ANO_MES \div 100 : i \in DOMAIN rows}
Triples(rows) == {triple(rows[i]) : i \in DOMAIN rows}

LaunchUnitsOf(rows, months) ==
    SumSeq([i \in DOMAIN rows |->
              IF rows[i].OFERTA_VENDA = "OFERTADOS LANCAMENTOS" /\ rows[i].ANO_MES \in months
              THEN rows[i].QUANTIDADE ELSE 0])

LaunchMonths(rows) ==
    {rows[i].ANO_MES : i \in {j \in DOMAIN rows : rows[j].OFERTA_VENDA = "OFERTADOS LANCAMENTOS"}}

\* the fixed month -> quarter mapping {1-3: 1, 4-6: 2, 7-9: 3, 10-12: 4}
QuarterOf(period) == <<period \div 100, ((period % 100) + 2) \div 3>>
YearOf(period) == period \div 100

\* a missing key reads as 0
Reported(map, key) == IF key \in DOMAIN map THEN map[key] ELSE 0

PageShown == pc = "page" /\ tables.shown

\* C2: the launch unit total reported for a month, and rolled up into its
\* quarter and its year, is the sum of QUANTIDADE over all OFFER_LAUNCH rows
\* of that month, quarter or year, whether or not the month's projects were
\* already counted earlier in the year; this for the counts the generator
\* publishes and for the series the page computes.
C2_LaunchUnitsIndependent ==
    /\ Generated =>
         LET months == LaunchMonths(residential_data)
         IN /\ \A p \in months :
                 Reported(launchCounts.monthly_units, p) = LaunchUnitsOf(residential_data, {p})
            /\ \A p \in months :
                 Reported(launchCounts.quarterly_units, QuarterOf(p)) =
                     LaunchUnitsOf(residential_data, {m \in months : QuarterOf(m) = QuarterOf(p)})
            /\ \A p \in months :
                 Reported(launchCounts.yearly_units, YearOf(p)) =
                     LaunchUnitsOf(residential_data, {m \in months : YearOf(m) = YearOf(p)})
    /\ PageShown =>
         LET months == LaunchMonths(rawData)
             series == tables.series.lancamentos
         IN /\ \A p \in months : Reported(series.monthly, p) = LaunchUnitsOf(rawData, {p})
            /\ \A p \in months :
                 Reported(series.quarterly, QuarterOf(p)) =
                     LaunchUnitsOf(rawData, {m \in months : QuarterOf(m) = QuarterOf(p)})
            /\ \A p \in months :
                 Reported(series.yearly, YearOf(p)) =
                     LaunchUnitsOf(rawData, {m \in months : YearOf(m) = YearOf(p)})

\* ------------------------------------------------------------ period roll-ups
SumStyle == {"vendas", "lancamentos", "distratos", "vendaArea", "vgl", "vgv"}
OfferStyle == {"ofertas", "ofertaArea"}

MonthsOfQuarter(series, k) == {p \in DOMAIN series.monthly : QuarterOf(p) = k}
MonthsOfYear(series, y) == {p \in DOMAIN series.monthly : YearOf(p) = y}

\* the quarters and years of a series are those of its months
BucketsOfMonths(series) ==
    /\ DOMAIN series.quarterly = {QuarterOf(p) : p \in DOMAIN series.monthly}
    /\ DOMAIN series.yearly = {YearOf(p) : p \in DOMAIN series.monthly}

\* C3: for every Sum-style metric (sales, launches, distratos, sale area, VGL,
\* VGV) the yearly value of each year is the sum of the monthly values of
\* that year, and the quarterly value of each quarter is the sum of the
\* monthly values of its months.
C3_SumMetricsReconcile ==
    PageShown =>
        \A m \in SumStyle :
            LET series == tables.series[m]
            IN /\ BucketsOfMonths(series)
               /\ \A y \in DOMAIN series.yearly :
                    series.yearly[y] = SumOver(series.monthly, MonthsOfYear(series, y))
               /\ \A k \in DOMAIN series.quarterly :
                    series.quarterly[k] = SumOver(series.monthly, MonthsOfQuarter(series, k))

\* sales in three months of 2021, two of them in the first quarter
C3_Witness ==
    /\ PageShown
    /\ DOMAIN tables.series.vendas.monthly = {202101, 202102, 202104}
    /\ tables.series.vendas.monthly[202102] = 3
    /\ tables.series.vendas.quarterly[<<2021, 1>>] = 4
    /\ tables.series.vendas.yearly[2021] = 5

Abs(x) == IF x < 0 THEN -x ELSE x

\* q is an integer nearest to total / count
NearestToMean(q, total, count) == count > 0 /\ 2 * Abs(count * q - total) <= count

\* C4: for the offer-style metrics (offer units, offer area) the quarterly and
\* the yearly value of a bucket is the arithmetic mean of the monthly values
\* of the bucket, rounded to the nearest integer.
C4_OfferMetricsAreMeans ==
    PageShown =>
        \A m \in OfferStyle :
            LET series == tables.series[m]
            IN /\ BucketsOfMonths(series)
               /\ \A y \in DOMAIN series.yearly :
                    NearestToMean(series.yearly[y],
                                  SumOver(series.monthly, MonthsOfYear(series, y)),
                                  Cardinality(MonthsOfYear(series, y)))
               /\ \A k \in DOMAIN series.quarterly :
                    NearestToMean(series.quarterly[k],
                                  SumOver(series.monthly, MonthsOfQuarter(series, k)),
                                  Cardinality(MonthsOfQuarter(series, k)))

\* offers of 1 and 2 units in the two months of a quarter: the quarter shows 2, not 3
C4_Witness ==
    /\ PageShown
    /\ LET series == tables.series.ofertas
       IN /\ MonthsOfQuarter(series, <<2021, 1>>) = {202101, 202102}
          /\ series.monthly[202101] = 1
          /\ series.monthly[202102] = 2
          /\ series.quarterly[<<2021, 1>>] = 2
          /\ Cardinality(MonthsOfYear(series, 2021)) = 3

\* the fraction x is the mean of the fractions f[p], p in months
IsMeanOf(x, f, months) ==
    LET total == FracSumOver(f, months)
    IN /\ months # {}
       /\ IsNumber(x)
       /\ x[1] * total[2] * Cardinality(months) = total[1] * x[2]

\* C5: the quarterly and the yearly IVV are the arithmetic mean of the monthly
\* IVV values of the months of the quarter or year.
C5_IVVIsMeanOfMonthly ==
    PageShown =>
        LET series == tables.series.ivv
        IN /\ BucketsOfMonths(series)
           /\ \A y \in DOMAIN series.yearly :
                IsMeanOf(series.yearly[y], series.monthly, MonthsOfYear(series, y))
           /\ \A k \in DOMAIN series.quarterly :
                IsMeanOf(series.quarterly[k], series.monthly, MonthsOfQuarter(series, k))

UnitsOf(rows, types, months) ==
    SumSeq([i \in DOMAIN rows |->
              IF rows[i].OFERTA_VENDA \in types /\ rows[i].ANO_MES \in months
              THEN rows[i].QUANTIDADE ELSE 0])

\* a year of two months with different IVV, whose yearly IVV is not
\* (sum of sales / sum of offers) x 100
C5_Witness ==
    /\ PageShown
    /\ LET series == tables.series.ivv
           months == MonthsOfYear(series, 2021)
       IN /\ Cardinality(months) = 2
          /\ \E p \in months : series.monthly[p] # Zero
          /\ \E p, q \in months : series.monthly[p] # series.monthly[q]
          /\ series.yearly[2021] #
                 Frac(UnitsOf(rawData, vendaTypes, months) * 100, UnitsOf(rawData, ofertaTypes, months))

\* ------------------------------------------------------ area-weighted average
Ponderado == {[metric |-> "ofertaValorPonderado", types |-> ofertaTypes],
              [metric |-> "vendaValorPonderado", types |-> vendaTypes]}

\* the rows that contribute to the weighted average of the types: priced area and area present
Contributes(row, types) ==
    /\ row.OFERTA_VENDA \in types
    /\ row.AREA_QUANTIDADE_VALOR > 0
    /\ row.AREA_QUANTIDADE > 0

ValorOf(rows, types, months) ==
    SumSeq([i \in DOMAIN rows |->
              IF Contributes(rows[i], types) /\ rows[i].ANO_MES \in months
              THEN rows[i].AREA_QUANTIDADE_VALOR ELSE 0])

AreaOf(rows, types, months) ==
    SumSeq([i \in DOMAIN rows |->
              IF Contributes(rows[i], types) /\ rows[i].ANO_MES \in months
              THEN rows[i].AREA_QUANTIDADE ELSE 0])

ContributingMonths(rows, types) ==
    {rows[i].ANO_MES : i \in {j \in DOMAIN rows : Contributes(rows[j], types)}}

\* the fraction x is valor / area
IsRatio(x, valor, area) == area > 0 /\ IsNumber(x) /\ x[1] * area = valor * x[2]

\* C6: the quarterly and the yearly area-weighted average price of a bucket is
\* (sum of AREA_QUANTIDADE_VALOR over the contributing rows of the bucket's
\* months) / (sum of AREA_QUANTIDADE over the same rows).
C6_WeightedFromRawSums ==
    PageShown =>
        \A w \in Ponderado :
            LET series == tables.series[w.metric]
                months == ContributingMonths(rawData, w.types)
            IN /\ DOMAIN series.quarterly = {QuarterOf(p) : p \in months}
               /\ DOMAIN series.yearly = {YearOf(p) : p \in months}
               /\ \A k \in DOMAIN series.quarterly :
                    LET g == {p \in months : QuarterOf(p) = k}
                    IN IsRatio(series.quarterly[k], ValorOf(rawData, w.types, g), AreaOf(rawData, w.types, g))
               /\ \A y \in DOMAIN series.yearly :
                    LET g == {p \in months : YearOf(p) = y}
                    IN IsRatio(series.yearly[y], ValorOf(rawData, w.types, g), AreaOf(rawData, w.types, g))

\* a quarter of two months whose value is not the mean of the two monthly ratios
C6_Witness ==
    /\ PageShown
    /\ LET series == tables.series.ofertaValorPonderado
           months == MonthsOfQuarter(series, <<2021, 1>>)
       IN /\ Cardinality(months) = 2
          /\ ~IsMeanOf(series.quarterly[<<2021, 1>>], series.monthly, months)
          /\ \E i \in DOMAIN rawData :
                /\ rawData[i].OFERTA_VENDA \in vendaTypes
                /\ rawData[i].AREA_QUANTIDADE > 0
                /\ rawData[i].AREA_QUANTIDADE_VALOR = 0

\* the months that have a row of the types
StatusMonths(rows, types) ==
    {rows[i].ANO_MES : i \in {j \in DOMAIN rows : rows[j].OFERTA_VENDA \in types}}

\* AREA_QUANTIDADE summed over the rows of the types in the months
TotalArea(rows, types, months) ==
    SumSeq([i \in DOMAIN rows |->
              IF rows[i].OFERTA_VENDA \in types /\ rows[i].ANO_MES \in months
              THEN rows[i].AREA_QUANTIDADE ELSE 0])

\* the months, quarters and years that have rows of the types but no area
ZeroAreaMonths(rows, types) ==
    {p \in StatusMonths(rows, types) : TotalArea(rows, types, {p}) = 0}

ZeroAreaQuarters(rows, types) ==
    {k \in {QuarterOf(p) : p \in StatusMonths(rows, types)} :
        TotalArea(rows, types, {p \in StatusMonths(rows, types) : QuarterOf(p) = k}) = 0}

ZeroAreaYears(rows, types) ==
    {y \in {YearOf(p) : p \in StatusMonths(rows, types)} :
        TotalArea(rows, types, {p \in StatusMonths(rows, types) : YearOf(p) = y}) = 0}

\* C8 (as stated): a month, quarter or year that has rows of the metric's
\* status filter but a total area of 0 appears in the weighted-average
\* series with the value 0.
C8_ZeroAreaYieldsZero ==
    PageShown =>
        \A w \in Ponderado :
            LET series == tables.series[w.metric]
            IN /\ \A p \in ZeroAreaMonths(rawData, w.types) :
                    p \in DOMAIN series.monthly /\ series.monthly[p] = Zero
               /\ \A k \in ZeroAreaQuarters(rawData, w.types) :
                    k \in DOMAIN series.quarterly /\ series.quarterly[k] = Zero
               /\ \A y \in ZeroAreaYears(rawData, w.types) :
                    y \in DOMAIN series.yearly /\ series.yearly[y] = Zero

\* every row of the types in the months has the area 0
AllAreaZero(rows, types, months) ==
    \A i \in DOMAIN rows :
        (rows[i].OFERTA_VENDA \in types /\ rows[i].ANO_MES \in months) => rows[i].AREA_QUANTIDADE = 0

\* C8 (amended): a month, quarter or year that has rows of the metric's
\* status filter, all of them with the area 0 (so a total area of 0), has no
\* entry in the weighted-average series: it is omitted, not reported as 0;
\* and every value the series holds is a finite number.
C8_ZeroAreaOmitted ==
    PageShown =>
        \A w \in Ponderado :
            LET series == tables.series[w.metric]
                months == StatusMonths(rawData, w.types)
            IN /\ \A p \in months :
                    AllAreaZero(rawData, w.types, {p}) => p \notin DOMAIN series.monthly
               /\ \A p \in months :
                    AllAreaZero(rawData, w.types, {m \in months : QuarterOf(m) = QuarterOf(p)})
                        => QuarterOf(p) \notin DOMAIN series.quarterly
               /\ \A p \in months :
                    AllAreaZero(rawData, w.types, {m \in months : YearOf(m) = YearOf(p)})
                        => YearOf(p) \notin DOMAIN series.yearly
               /\ \A p \in DOMAIN series.monthly : IsNumber(series.monthly[p])
               /\ \A k \in DOMAIN series.quarterly : IsNumber(series.quarterly[k])
               /\ \A y \in DOMAIN series.yearly : IsNumber(series.yearly[y])

\* offers with area in January 2021 and offers without area in April 2021
C8_Witness ==
    /\ PageShown
    /\ ZeroAreaMonths(rawData, ofertaTypes) = {202104}
    /\ ZeroAreaQuarters(rawData, ofertaTypes) = {<<2021, 2>>}
    /\ DOMAIN tables.series.ofertaValorPonderado.monthly = {202101}
    /\ DOMAIN tables.series.ofertaValorPonderado.quarterly = {<<2021, 1>>}

\* ------------------------------------------------------------- status filter
RecognisedStatuses == ofertaTypes \cup vendaTypes \cup lancamentoTypes \cup distratoTypes

\* C9: rows whose status is not one of the recognised statuses take part in
\* no aggregate: the monthly, quarterly and yearly series of every metric,
\* IVV included, are those computed from the rows of recognised status alone.
C9_UnknownStatusIgnored ==
    PageShown =>
        tables.series = tableSeries(SelectSeq(rawData, LAMBDA r : r.OFERTA_VENDA \in RecognisedStatuses))

\* the status filter of each metric of the period tables
MetricFilter ==
    [ivv |-> ofertaTypes \cup vendaTypes,
     ofertas |-> ofertaTypes,
     vendas |-> vendaTypes,
     lancamentos |-> lancamentoTypes,
     ofertaArea |-> ofertaTypes,
     vendaArea |-> vendaTypes,
     ofertaValorPonderado |-> ofertaTypes,
     vendaValorPonderado |-> vendaTypes,
     vgl |-> lancamentoTypes,
     vgv |-> vendaTypes,
     distratos |-> distratoTypes]

\* C10: no zero-fill: for every metric, IVV included, a month key exists in
\* the monthly series only if a row of that month has a status in the
\* metric's filter, and a quarter or year key exists only if one of its
\* months is present in the monthly series.
C10_NoZeroFill ==
    PageShown =>
        \A m \in DOMAIN MetricFilter :
            LET series == tables.series[m]
            IN /\ DOMAIN series.monthly \subseteq StatusMonths(rawData, MetricFilter[m])
               /\ DOMAIN series.quarterly \subseteq {QuarterOf(p) : p \in DOMAIN series.monthly}
               /\ DOMAIN series.yearly \subseteq {YearOf(p) : p \in DOMAIN series.monthly}

\* ----------------------------------------------------------- IVV, no offers
\* the rows the cross-tabs on screen were built from
CrossShownRows == filterCrossTabsData(crossTabsData, getCrossTabsFilters(periodo))

\* the offers among rows, of the bairros and room keys
OffersOf(rows, bairros, rooms) ==
    SumSeq([i \in DOMAIN rows |->
              IF /\ rows[i].OFERTA_VENDA \in ofertaTypes
                 /\ rows[i].BAIRRO \in bairros
                 /\ qVal(rows[i].QTD_QUARTOS) \in rooms
              THEN rows[i].QUANTIDADE ELSE 0])

SalesOf(rows, bairros, rooms) ==
    SumSeq([i \in DOMAIN rows |->
              IF /\ rows[i].OFERTA_VENDA \in vendaTypes
                 /\ rows[i].BAIRRO \in bairros
                 /\ qVal(rows[i].QTD_QUARTOS) \in rooms
              THEN rows[i].QUANTIDADE ELSE 0])

RoomKeys == {"", "1", "2", "3", "4+"}

\* a finite number, and 0 when there are no offers
ZeroWithoutOffers(ivv, offers) == IsNumber(ivv) /\ (offers = 0 => ivv = Zero)

\* C7: IVV with zero offers is 0 wherever it is computed: the monthly IVV of
\* a period whose offers sum to 0, and the cross-tab IVV of a (neighborhood,
\* room) cell, of a row total, of a column total and of the grand total
\* whose offers sum to 0; no IVV is NaN or Infinity.
C7_ZeroOffersGiveZeroIVV ==
    /\ tables.shown =>
         \A p \in DOMAIN tables.series.ivv.monthly :
            ZeroWithoutOffers(tables.series.ivv.monthly[p], UnitsOf(rawData, ofertaTypes, {p}))
    /\ crossTables.shown =>
         LET rows == CrossShownRows
             computed == crossTables.cross.ivv_por_regiao
             table == crossTables.ivv_por_regiao
         IN /\ \A b \in DOMAIN computed : \A q \in DOMAIN computed[b] :
                 ZeroWithoutOffers(computed[b][q], OffersOf(rows, {b}, {q}))
            /\ \A b \in table.bairros : \A q \in table.rooms :
                 ZeroWithoutOffers(table.cells[b][q], OffersOf(rows, {b}, {q}))
            /\ \A b \in table.bairros :
                 ZeroWithoutOffers(table.rowTotals[b], OffersOf(rows, {b}, RoomKeys))
            /\ \A q \in table.rooms :
                 ZeroWithoutOffers(table.colTotals[q], OffersOf(rows, table.bairros, {q}))
            /\ ZeroWithoutOffers(table.grandTotal, OffersOf(rows, table.bairros, RoomKeys))

\* February 2021 has sales and no offers: its monthly IVV and, with February
\* ticked, the cell, the row total, the column total and the grand total are 0
C7_Witness ==
    /\ tables.shown
    /\ crossTables.shown
    /\ periodo = 202102
    /\ UnitsOf(rawData, vendaTypes, {202102}) > 0
    /\ UnitsOf(rawData, ofertaTypes, {202101}) > 0
    /\ tables.series.ivv.monthly[202102] = Zero
    /\ LET table == crossTables.ivv_por_regiao
       IN \E b \in table.bairros : \E q \in table.rooms :
            /\ SalesOf(CrossShownRows, {b}, {q}) > 0
            /\ table.cells[b][q] = Zero
            /\ table.rowTotals[b] = Zero
            /\ table.colTotals[q] = Zero
            /\ table.grandTotal = Zero

\* ------------------------------------------------------------ missing period
HasPeriod(row) == row.ANO_MES # NoPeriod

\* C11: a row without a (parseable) period is excluded from every
\* period-dependent aggregate: the monthly, quarterly and yearly series of
\* every metric are those of the rows that have a period, with no key derived
\* from the missing period, and launch counting skips the row.
C11_MissingPeriodExcluded ==
    /\ Generated =>
         /\ launchCounts = get_public_launch_counts(SelectSeq(residential_data, HasPeriod))
         /\ NoPeriod \notin DOMAIN residential_details
    /\ PageShown =>
         /\ tables.series = tableSeries(SelectSeq(rawData, HasPeriod))
         /\ \A m \in DOMAIN MetricFilter :
               /\ NoPeriod \notin DOMAIN tables.series[m].monthly
               /\ \A k \in DOMAIN tables.series[m].quarterly :
                     \E i \in DOMAIN rawData : HasPeriod(rawData[i]) /\ QuarterOf(rawData[i].ANO_MES) = k
               /\ \A y \in DOMAIN tables.series[m].yearly :
                     \E i \in DOMAIN rawData : HasPeriod(rawData[i]) /\ YearOf(rawData[i].ANO_MES) = y

\* ------------------------------------------------------- name normalisation
\* C12: the normalisation of project names is idempotent: applied to its own
\* output it returns that output unchanged, for every project name.
C12_NormalizationIdempotent ==
    (call.fn = "extract_empreendimento_name" /\ Len(call.values) >= 3)
        => call.values[3] = call.values[2]

\* ----------------------------------------------------------------- brackets
Categorized(fn) == call.fn = fn /\ Len(call.values) = 2

\* twice the value (the scenarios hold numbers of half units), so that the
\* brackets are told apart in whole numbers
Twice(x) == (2 * x[1]) \div x[2]

ValueBracket(h) ==
    IF h < 700000 THEN "< 350.000"
    ELSE IF h < 1000000 THEN "350.000 - 499.999"
    ELSE IF h < 1400000 THEN "500.000 - 699.999"
    ELSE IF h < 2000000 THEN "700.000 - 999.999"
    ELSE IF h < 4000000 THEN "1.000.000 - 1.999.999"
    ELSE ">= 2.000.000"

\* C13: a value bracket is assigned to every non-negative value, the lower
\* bound of a bracket belonging to it and the upper bound to the next one
\* (350000 is in "350.000 - 499.999", 2000000 in ">= 2.000.000"); a negative
\* or missing value gets "N/A".
C13_ValueBrackets ==
    Categorized("categorize_value") =>
        LET value == call.values[1]
            label == call.values[2]
        IN IF value = NaN \/ value[1] < 0 THEN label = "N/A"
           ELSE label = ValueBracket(Twice(value))

C13_Witness ==
    /\ Categorized("categorize_value")
    /\ call.values[1] = <<350000, 1>>
    /\ call.values[2] = "350.000 - 499.999"

\* C14: every area that is present and not negative, whole or not, gets one
\* of the nine area brackets; only a missing area gets "N/A".
C14_AreaBracketsExhaustive ==
    Categorized("categorize_area") =>
        LET area == call.values[1]
            label == call.values[2]
        IN (area # NaN /\ area[1] >= 0)
              => label \in {FAIXAS_AREA[i].label : i \in DOMAIN FAIXAS_AREA}

\* ------------------------------------------------------ cross-tab totals
\* the sum of a field over the rows of the statuses, bairros and room keys
FieldOf(rows, types, field, bairros, rooms) ==
    SumSeq([i \in DOMAIN rows |->
              IF /\ rows[i].OFERTA_VENDA \in types
                 /\ rows[i].BAIRRO \in bairros
                 /\ qVal(rows[i].QTD_QUARTOS) \in rooms
              THEN rows[i][field] ELSE 0])

\* the count and area cross-tabs on screen, with the statuses and the field each sums
SumTables ==
    { [table |-> crossTables.oferta_quantidade, types |-> ofertaTypes, field |-> "QUANTIDADE"],
      [table |-> crossTables.venda_quantidade, types |-> vendaTypes, field |-> "QUANTIDADE"],
      [table |-> crossTables.oferta_m2, types |-> ofertaTypes, field |-> "AREA_QUANTIDADE"],
      [table |-> crossTables.venda_m2, types |-> vendaTypes, field |-> "AREA_QUANTIDADE"] }

\* C15: in the count and area cross-tabs a row without a room count is in no
\* per-room column, and its value is part of the row total of its bairro.
C15_MissingRoomsInRowTotal ==
    crossTables.shown =>
        \A t \in SumTables :
            /\ "" \notin t.table.rooms
            /\ \A b \in t.table.bairros :
                  t.table.rowTotals[b] = FieldOf(CrossShownRows, t.types, t.field, {b}, RoomKeys)

\* ------------------------------------------------- cross-tab weighted value
\* the rows on screen of a status group, a bairro and a room key
CellRows(types, b, q) ==
    SelectSeq(CrossShownRows,
              LAMBDA r : r.OFERTA_VENDA \in types /\ r.BAIRRO = b /\ qVal(r.QTD_QUARTOS) = q)

\* the weighted-value maps of generateCrossData, with the statuses of each
PonderadoMaps ==
    { [cells |-> crossTables.cross.valor_ponderado_oferta, types |-> ofertaTypes],
      [cells |-> crossTables.cross.valor_ponderado_venda, types |-> vendaTypes] }

\* C16: the weighted value of a cross-tab cell follows the rule of the Period
\* Aggregator: over the rows of one status group, one month, one bairro and
\* one room key, the cell holds the monthly weighted value that the Period
\* Aggregator computes for these rows, wherever it computes one.
C16_CellFollowsAggregatorRule ==
    (crossTables.shown /\ periodo # NoPeriod) =>
        \A m \in PonderadoMaps : \A b \in DOMAIN m.cells : \A q \in DOMAIN m.cells[b] :
            LET monthly ==
                    calculateValorPonderadoPeriodAggregations(CellRows(m.types, b, q), m.types).monthly
            IN periodo \in DOMAIN monthly => m.cells[b][q] = monthly[periodo]

\* ------------------------------------------------------ spend after delivery
\* the share of the sale value, in hundredths, of a bairro's building standard
TierPercent(b) ==
    CASE getPadraoRegiao(b) = "Alto" -> 25
      [] getPadraoRegiao(b) = "Popular" -> 10
      [] OTHER -> 15

\* the spend of a cell of generateCrossData, 0 where it has none
SpendCell(b, q) ==
    LET gastos == crossTables.cross.gastos_pos_entrega
    IN IF b \in DOMAIN gastos /\ q \in DOMAIN gastos[b] THEN gastos[b][q] ELSE Zero

ShownBairros == {CrossShownRows[i].BAIRRO : i \in DOMAIN CrossShownRows}

SpendOf(b) == FracSumOver([q \in RoomKeys |-> SpendCell(b, q)], RoomKeys)

\* the shares of the categories for a standard, summed, in thousandths
WeightSum(padrao) ==
    SumSeq([c \in DOMAIN categorias |-> percentualCategoria(categorias[c], padrao)])

\* C18: the spend by category reconciles with the spend after delivery: the
\* eight category values of a bairro sum to the bairro's total spend after
\* delivery, the category shares of a standard sum to the share of the
\* standard (25%, 15%, 10%), and both tables take the standard of a bairro
\* from the same lookup.
C18_CategoriesReconcile ==
    crossTables.shown =>
        LET table == crossTables.gastos_por_categoria
        IN /\ table.regioes = DOMAIN crossTables.cross.gastos_pos_entrega
           /\ \A r \in table.regioes :
                 /\ DOMAIN table.valores[r] = 1..8
                 /\ FracSumOver(table.valores[r], 1..8) = SpendOf(r)
                 /\ table.totalLinha[r] = SpendOf(r)
                 /\ WeightSum(crossTables.gastos_pos_entrega.padrao[r]) = 10 * TierPercent(r)
           /\ WeightSum("Alto") = 250 /\ WeightSum("Medio") = 150 /\ WeightSum("Popular") = 100

\* bairros of two standards with a spend each
C18_Witness ==
    /\ crossTables.shown
    /\ {"ASA SUL", "GAMA"} \subseteq crossTables.gastos_por_categoria.regioes
    /\ SpendOf("ASA SUL") # Zero
    /\ SpendOf("GAMA") # Zero

\* ------------------------------------------------- totals from the raw sums
\* totalArea > 0 ? totalValor / totalArea : 0, and ofertas > 0 ? vendas / ofertas * 100 : 0
RatioOf(num, den, scale) == IF den > 0 THEN Frac(num * scale, den) ELSE Zero

\* the row totals, column totals and grand total of a table are total(bs, qs)
\* over its bairros and room columns
TotalsAre(table, total(_, _)) ==
    /\ \A b \in table.bairros : table.rowTotals[b] = total({b}, table.rooms)
    /\ \A q \in table.rooms : table.colTotals[q] = total(table.bairros, {q})
    /\ table.grandTotal = total(table.bairros, table.rooms)

PonderadoTables ==
    { [table |-> crossTables.valor_ponderado_oferta, types |-> ofertaTypes],
      [table |-> crossTables.valor_ponderado_venda, types |-> vendaTypes] }

\* C19: the row totals, column totals and grand total of the cross-tabs are
\* aggregated anew from the raw sums of their room columns: in the count and
\* area tables the sum of the raw values, in the weighted-value tables the
\* summed values over the summed areas, in the IVV table the summed sales
\* over the summed offers, never a sum or mean of the computed cells.
C19_TotalsFromRawSums ==
    crossTables.shown =>
        LET rows == CrossShownRows
        IN /\ \A t \in SumTables :
                 LET total(bs, qs) == FieldOf(rows, t.types, t.field, bs, qs)
                 IN TotalsAre(t.table, total)
           /\ \A t \in PonderadoTables :
                 LET total(bs, qs) ==
                         RatioOf(FieldOf(rows, t.types, "AREA_QUANTIDADE_VALOR", bs, qs),
                                 FieldOf(rows, t.types, "AREA_QUANTIDADE", bs, qs), 1)
                 IN TotalsAre(t.table, total)
           /\ LET total(bs, qs) == RatioOf(SalesOf(rows, bs, qs), OffersOf(rows, bs, qs), 100)
              IN TotalsAre(crossTables.ivv_por_regiao, total)

\* a weighted row total over two cells of values 3 and 5 that is neither
\* their sum nor their mean
C19_Witness ==
    /\ crossTables.shown
    /\ "ASA SUL" \in crossTables.valor_ponderado_oferta.bairros
    /\ crossTables.valor_ponderado_oferta.cells["ASA SUL"] = ("1" :> <<3, 1>> @@ "2" :> <<5, 1>>)
    /\ crossTables.valor_ponderado_oferta.rowTotals["ASA SUL"] = <<11, 3>>

\* ---------------------------------------------------------- project counts
\* the sum of the monthly project counts of the months that satisfy in(_)
MonthlyCounts(in(_)) ==
    LET months == {p \in DOMAIN launchCounts.monthly_projects : in(p)}
    IN SumOver(launchCounts.monthly_projects, months)

\* C20: the project counts are list lengths: the count of a month is the
\* length of the month's list of the launch index, the count of a quarter
\* the sum of the monthly counts of its months, the count of a year the sum
\* of the monthly counts of its months, so that the quarterly counts of a
\* year add up to its yearly count.
C20_ProjectCountsAreListLengths ==
    Generated =>
        /\ DOMAIN launchCounts.monthly_projects = DOMAIN residential_details
        /\ \A p \in DOMAIN residential_details :
              launchCounts.monthly_projects[p] = Len(residential_details[p])
        /\ DOMAIN launchCounts.quarterly_projects = {QuarterOf(p) : p \in DOMAIN residential_details}
        /\ \A k \in DOMAIN launchCounts.quarterly_projects :
              launchCounts.quarterly_projects[k] = MonthlyCounts(LAMBDA p : QuarterOf(p) = k)
        /\ DOMAIN launchCounts.yearly_projects = {YearOf(p) : p \in DOMAIN residential_details}
        /\ \A y \in DOMAIN launchCounts.yearly_projects :
              /\ launchCounts.yearly_projects[y] = MonthlyCounts(LAMBDA p : YearOf(p) = y)
              /\ launchCounts.yearly_projects[y] =
                    SumOver(launchCounts.quarterly_projects,
                            {k \in DOMAIN launchCounts.quarterly_projects : k[1] = y})

\* a year with launches in two quarters and a month with two projects
C20_Witness ==
    /\ Generated
    /\ {<<2021, 1>>, <<2021, 2>>} \subseteq DOMAIN launchCounts.quarterly_projects
    /\ \E p \in DOMAIN residential_details : Len(residential_details[p]) = 2
    /\ launchCounts.yearly_projects[2021] = 3

\* ----------------------------------------------------- page and TXT report
\* the number of entries of a list under a key, 0 without the key
Listed(map, key) == IF key \in DOMAIN map THEN Len(map[key]) ELSE 0

\* C21: the launch counts of the page and of the TXT report agree: for
\* every month the public monthly project count is the number of entries of
\* the private details for the month, and for every year the public yearly
\* project count is the yearly total written to the TXT report.
C21_PageAndReportAgree ==
    Generated =>
        /\ \A p \in DOMAIN launchCounts.monthly_projects \cup DOMAIN residential_details :
              Reported(launchCounts.monthly_projects, p) = Listed(residential_details, p)
        /\ \A y \in DOMAIN launchCounts.yearly_projects
                      \cup DOMAIN lancamentos_residenciais.yearly_sum :
              /\ Reported(launchCounts.yearly_projects, y)
                    = Reported(lancamentos_residenciais.yearly_sum, y)
              /\ Reported(lancamentos_residenciais.yearly_sum, y)
                    = Listed(lancamentos_residenciais.yearly_projects, y)

\* a report of two years, one of them with two projects in one month
C21_Witness ==
    /\ Generated
    /\ DOMAIN lancamentos_residenciais.yearly_sum = {2021, 2022}
    /\ lancamentos_residenciais.yearly_sum[2021] = 2
    /\ \E p \in DOMAIN residential_details : Len(residential_details[p]) = 2

\* ------------------------------------------------------- single session
\* the browser carries a session of a user whose registered session id is another one
Superseded(b) ==
    /\ session[b].user # NoUser
    /\ _active_sessions[session[b].user] # session[b].session_id

\* C22: one active session per user: once the user has completed /authorize
\* from a second browser, the new session id is the registered one, and a
\* request to /dashboard or /debug/profile that carries the session of the
\* first browser has its session cleared and is redirected to /login, so
\* that no superseded session is served the dashboard.
C22_SingleActiveSession ==
    [][\A b \in Browsers : \A path \in {"/dashboard", "/debug/profile"} :
          /\ (protected(b, path) /\ Superseded(b))
                => (session'[b] = NoSessionCookie /\ response'[b] = "redirect:/login")
          /\ \A user_email \in Emails :
                (authorize(b, user_email) /\ session'[b].user = user_email)
                    => _active_sessions'[user_email] = session'[b].session_id]_vars

\* ------------------------------------------------------ the quarter keys
\* TRIMESTRES: the quarter of each month
TRIMESTRES == [m \in 1..12 |-> IF m <= 3 THEN 1 ELSE IF m <= 6 THEN 2 ELSE IF m <= 9 THEN 3 ELSE 4]

\* the quarter taken as month // 3 + 1: March, June and September move on one quarter
aggregate_projects_to_quarters_late(projects_monthly) ==
    LET key(p) == <<p \div 100, (p % 100) \div 3 + 1>>
        keys == {key(p) : p \in DOMAIN projects_monthly}
    IN [k \in keys |-> SumOver(projects_monthly, {p \in DOMAIN projects_monthly : key(p) = k})]

\* int(float(period)) of an integer period is the period; the key f"{year}_{quarter}T"
\* is held as <<year, quarter>>
aggregate_projects_to_quarters(projects_monthly) ==
    LET key(p) == <<p \div 100, ((p % 100) - 1) \div 3 + 1>>
        keys == {key(p) : p \in DOMAIN projects_monthly}
    IN [k \in keys |-> SumOver(projects_monthly, {p \in DOMAIN projects_monthly : key(p) = k})]

aggregate_projects_to_years(projects_monthly) ==
    LET keys == {p \div 100 : p \in DOMAIN projects_monthly}
    IN [k \in keys |-> SumOver(projects_monthly, {p \in DOMAIN projects_monthly : p \div 100 = k})]

\* monthly maps of one or two months AAAAMM, months 1 to 12, with counts 1 or 2
CalendarYears == 2021..(2020 + MaxYears)
CalendarMonths == {y * 100 + m : y \in CalendarYears, m \in 1..12}
MonthlyMaps ==
    UNION {[S -> {1, 2}] : S \in {{p, q} : p \in CalendarMonths, q \in CalendarMonths}}

InitQuarter ==
    /\ residential_data = <<>>
    /\ pc = "load"
    /\ rawData = <<>>
    /\ launchCounts = NoCounts
    /\ residential_details = <<>>
    /\ tables = NoTables
    /\ crossTabsData = <<>>
    /\ periodo = NoPeriod
    /\ crossTables = NoCrossTables
    /\ OtherInit
    /\ call \in {[fn |-> "quarters", values |-> <<monthly>>] : monthly \in MonthlyMaps}

\* the roll-ups already recorded for the monthly map of the call
rolledBy == {call.values[i].by : i \in 2..Len(call.values)}

\* the Launch Manager roll-up of the monthly map
LaunchManagerRollUp ==
    /\ call.fn = "quarters"
    /\ "_aggregate_to_quarters" \notin rolledBy
    /\ call' = [call EXCEPT !.values =
                   Append(@, [by |-> "_aggregate_to_quarters",
                              quarterly |-> _aggregate_to_quarters(call.values[1]),
                              yearly |-> _aggregate_to_years(call.values[1])])]
    /\ UNCHANGED pageVars

\* the project-count roll-up of the monthly map
ProjectsRollUp ==
    /\ call.fn = "quarters"
    /\ "aggregate_projects_to_quarters" \notin rolledBy
    /\ call' = [call EXCEPT !.values =
                   Append(@, [by |-> "aggregate_projects_to_quarters",
                              quarterly |-> aggregate_projects_to_quarters(call.values[1]),
                              yearly |-> aggregate_projects_to_years(call.values[1])])]
    /\ UNCHANGED pageVars

\* the page roll-up (calculate*PeriodAggregations) of the monthly map, as sums
PageRollUp ==
    /\ call.fn = "quarters"
    /\ "calculatePeriodAggregations" \notin rolledBy
    /\ LET r == rollUp(call.values[1], FALSE)
       IN call' = [call EXCEPT !.values =
                      Append(@, [by |-> "calculatePeriodAggregations",
                                 quarterly |-> r.quarterly, yearly |-> r.yearly])]
    /\ UNCHANGED pageVars

NextQuarter == LaunchManagerRollUp \/ ProjectsRollUp \/ PageRollUp

SpecQuarter == InitQuarter /\ [][NextQuarter]_vars

\* C23: every roll-up of a monthly map whose months are 1 to 12 files each month
\* AAAAMM under the quarter key <<AAAA, TRIMESTRES[MM]>> and the year key AAAA, so
\* the Launch Manager, the project roll-up and the page use the same keys
C23_QuarterKeysAgree ==
    call.fn = "quarters" =>
        \A i \in 2..Len(call.values) :
            /\ DOMAIN call.values[i].quarterly
                  = {<<p \div 100, TRIMESTRES[p % 100]>> : p \in DOMAIN call.values[1]}
            /\ DOMAIN call.values[i].yearly = {p \div 100 : p \in DOMAIN call.values[1]}

\* the three roll-ups recorded for a map with March and April of one year
C23_Witness ==
    /\ call.fn = "quarters"
    /\ Len(call.values) = 4
    /\ DOMAIN call.values[1] = {202103, 202104}
    /\ \A i \in 2..4 : DOMAIN call.values[i].quarterly = {<<2021, 1>>, <<2021, 2>>}

\* ------------------------------------------------ the launch eligibility
\* rows of the eligibility scenarios: two launches, and rows that fail one
\* condition of the filter each
EligibilityRows ==
    {LaunchRow(202101, "OFERTADOS LANCAMENTOS", 2, "GAMA", <<"Alfa">>, "E1"),
     LaunchRow(202201, "OFERTADOS LANCAMENTOS", 1, "GAMA", <<"Beta">>, "E1"),
     LaunchRow(202101, "OFERTADOS LANCAMENTOS", 0, "GUARA", <<"Alfa">>, "E1"),
     LaunchRow(202101, "OFERTADOS DISPONIVEIS", 2, "GAMA", <<"Alfa">>, "E2"),
     LaunchRow(NoPeriod, "OFERTADOS LANCAMENTOS", 2, "GAMA", <<"Beta">>, "E2"),
     LaunchRow(202101, "OFERTADOS LANCAMENTOS", 2, "GAMA", NoName, "E1"),
     LaunchRow(202101, "OFERTADOS LANCAMENTOS", 2, "GAMA", <<"Beta">>, NoText),
     LaunchRow(202101, "OFERTADOS LANCAMENTOS", 2, NoText, <<"Beta">>, "E1")}

NextEligibility ==
    \/ \E row \in EligibilityRows : LoadRow(row)
    \/ GenerateDashboard

SpecEligibility == Init /\ [][NextEligibility]_vars

\* C24: a triple is listed in the LaunchIndex of a year if and only if a row of
\* that year with that triple has status OFFER_LAUNCH, units > 0, a period and
\* a ProjectIdentity other than N/A
C24_EligibilityIsStatedFilter ==
    Generated =>
        LET rows == extract_empreendimento_name(residential_data)
        IN \A y \in Years(rows) : \A t \in Triples(rows) :
              Listings(y, t) # {} <=> QualifyingPeriods(rows, y, t) # {}

\* a row that passes the stated filter and names its company and its neighborhood
Eligible(row) == Qualifies(row) /\ row.EMPRESA # NoText /\ row.BAIRRO # NoText

\* C24, amended: a triple is listed in the LaunchIndex of a year if and only if
\* a row of that year with that triple passes the stated filter and has both a
\* company and a neighborhood
C24_EligibilityNeedsCompanyAndNeighborhood ==
    Generated =>
        LET rows == extract_empreendimento_name(residential_data)
        IN \A y \in Years(rows) : \A t \in Triples(rows) :
              Listings(y, t) # {}
                  <=> \E i \in DOMAIN rows :
                         Eligible(rows[i]) /\ rows[i].ANO_MES \div 100 = y /\ triple(rows[i]) = t

\* generated from a launch that is listed, a launch row of zero units and a
\* launch row without company, neither of which is listed
C24_Witness ==
    /\ Generated
    /\ Listings(2021, <<<<"ALFA">>, "E1", "GAMA">>) # {}
    /\ \E i \in DOMAIN residential_data :
          residential_data[i].OFERTA_VENDA = "OFERTADOS LANCAMENTOS"
              /\ residential_data[i].QUANTIDADE = 0
    /\ \E i \in DOMAIN residential_data : residential_data[i].EMPRESA = NoText
    /\ Cardinality(DOMAIN residential_details) = 1
    /\ Len(residential_details[202101]) = 1

\* ------------------------------------------------ the generator's user
\* DashboardGenerator(user_email): a UserPermissionManager is made from the file
\* and authenticate_user(user_email) sets current_user and saves the last access
\* of an active user; the process hashes str with its own seed
DashboardGenerator(user_email) ==
    /\ pc = "load"
    /\ residential_data = <<>>
    /\ current_user = NoCurrentUser
    /\ \E seed \in {0, 1} : hashseed' = seed
    /\ IF user_email \in DOMAIN user_profiles /\ user_profiles[user_email].active
       THEN /\ current_user' = [email |-> user_email, profile |-> user_profiles[user_email].profile]
            /\ user_profiles' = [user_profiles EXCEPT ![user_email].last_access = 1]
       ELSE UNCHANGED <<current_user, user_profiles>>
    /\ UNCHANGED <<pageVarsOnly, call, lancamentos_residenciais, viewVars,
                   _active_sessions, session, response, pending, managers, uuid>>

\* rows of the masking scenarios: they differ in company and project name only
MaskRows ==
    {Row(202101, "OFERTADOS DISPONIVEIS", 1, 1, 1, "GAMA", 2, n, e) :
        n \in {<<"Alfa">>, <<"Beta">>}, e \in {"E1", "E2 CONSTRUTORA LTDA"}}

NextMask ==
    \/ \E user_email \in Emails : DashboardGenerator(user_email)
    \/ \E row \in MaskRows : LoadRow(row)
    \/ GenerateDashboard

SpecMask == Init /\ [][NextMask]_vars

\* C25: in a page generated for an authenticated user whose profile is not
\* admin, every row of rawData has EMPRESA 'EMPRESA PRIVADA' and a 'PROJETO NNN'
\* pseudonym as project name, whatever the names of the sheet are
C25_NonAdminDataMasked ==
    (Generated /\ current_user # NoCurrentUser /\ current_user.profile # "admin") =>
        \A i \in DOMAIN rawData :
            /\ rawData[i].EMPRESA = "EMPRESA PRIVADA"
            /\ rawData[i].EMPREENDIMENTO[1] = "PROJETO"

\* ------------------------------------------------ the filters of the page
\* the view of the period tables that is open
currentView == IF pc = "comercial" THEN "comercial" ELSE "residencial"

rawDataOf(view) == IF view = "comercial" THEN rawDataComercial ELSE rawData

\* normalizeString: trim, NFD, combining marks removed; "'" after a name
\* stands for an accent on it
normalizeString(str) ==
    CASE str = "GUARA'" -> "GUARA"
      [] OTHER -> str

\* row[field] of an embedded row, undefined when the row has no such column
Field(row, field) == IF field \in DOMAIN row THEN row[field] ELSE "undefined"

\* bairroSystem.filterData that keeps every row
bairroSystem_filterData_all(data, this_selectedBairros) == data

\* bairroSystem.filterData: the rows whose BAIRRO is selected, as written or normalised
bairroSystem_filterData(data, this_selectedBairros) ==
    IF this_selectedBairros = {} THEN data
    ELSE LET selectedNormalized == {normalizeString(b) : b \in this_selectedBairros}
         IN SelectSeq(data, LAMBDA row :
                \/ row.BAIRRO \in this_selectedBairros
                \/ normalizeString(row.BAIRRO) \in selectedNormalized)

\* the options of the bairro and room dropdowns: populateFilters fills them
\* once, when the page opens on the residential view
availableBairros ==
    {b \in {rawData[i].BAIRRO : i \in DOMAIN rawData} :
        \A i \in DOMAIN rawData :
            normalizeString(rawData[i].BAIRRO) = normalizeString(b)
                => \E j \in 1..i : rawData[j].BAIRRO = b}
quartosUnicos == {qVal(rawData[i].QTD_QUARTOS) : i \in DOMAIN rawData} \ {""}

getSelectedFilters(view, boxes, this_selectedBairros) ==
    [faixaValor |-> IF view = "residencial" THEN boxes.faixaValor ELSE {},
     faixaArea |-> boxes.faixaArea,
     estagioObra |-> boxes.estagioObra,
     bairro |-> this_selectedBairros,
     quartos |-> IF view = "residencial" THEN boxes.quartos ELSE {}]

filterData(data, filters, view, this_selectedBairros) ==
    LET byValor == IF view = "residencial" /\ filters.faixaValor # {}
                   THEN SelectSeq(data, LAMBDA row : Field(row, "Faixa_Valor") \in filters.faixaValor)
                   ELSE data
        byArea == IF filters.faixaArea # {}
                  THEN SelectSeq(byValor, LAMBDA row : Field(row, "Faixa_Area") \in filters.faixaArea)
                  ELSE byValor
        estagio(row) == IF Field(row, "ESTAGIO_OBRA") \in {"undefined", "", "nan"}
                        THEN "Em branco" ELSE Field(row, "ESTAGIO_OBRA")
        byEstagio == IF filters.estagioObra # {}
                     THEN SelectSeq(byArea, LAMBDA row : estagio(row) \in filters.estagioObra)
                     ELSE byArea
        byBairro == IF filters.bairro # {}
                    THEN bairroSystem_filterData(byEstagio, this_selectedBairros)
                    ELSE byEstagio
    IN IF view = "residencial" /\ filters.quartos # {}
       THEN SelectSeq(byBairro, LAMBDA row :
                /\ row.QTD_QUARTOS # NoRooms
                /\ \/ row.QTD_QUARTOS >= 4 /\ "4+" \in filters.quartos
                   \/ ToString(row.QTD_QUARTOS) \in filters.quartos)
       ELSE byBairro

\* load_data: one more row of the commercial sheet
LoadCommercialRow(row) ==
    /\ pc = "load"
    /\ Len(commercial_data) < MaxCommercialRows
    /\ commercial_data' = Append(commercial_data, row)
    /\ UNCHANGED <<pageVarsOnly, call, lancamentos_residenciais, generatorVars,
                   rawDataComercial, checked, selectedBairros, serverVars>>

\* switchView('residencial' | 'comercial'): every checkbox and radio unticked,
\* bairroSystem cleared, the tables of the whole sheet of the view
switchView(view) ==
    /\ pc \in {"page", "comercial"}
    /\ pc' = IF view = "comercial" THEN "comercial" ELSE "page"
    /\ checked' = NoChecked
    /\ periodo' = NoPeriod
    /\ selectedBairros' = {}
    /\ tables' = updateTables(rawDataOf(view))
    /\ UNCHANGED <<residential_data, rawData, launchCounts, residential_details, crossTabsData,
                   crossTables, call, lancamentos_residenciais, generatorVars,
                   commercial_data, rawDataComercial, serverVars>>

\* a checkbox of the bairro dropdown is clicked: its onchange is updateSelection
toggleBairro(bairro) ==
    /\ pc \in {"page", "comercial"}
    /\ bairro \in availableBairros
    /\ checked' = [checked EXCEPT !.bairro =
                      IF bairro \in @ THEN @ \ {bairro} ELSE @ \cup {bairro}]
    /\ selectedBairros' = checked'.bairro
    /\ UNCHANGED <<pageVarsOnly, call, lancamentos_residenciais, generatorVars,
                   commercial_data, rawDataComercial, serverVars>>

\* a checkbox of the room dropdown, shown in the residential view only, is clicked
toggleQuartos(quartos) ==
    /\ pc = "page"
    /\ quartos \in quartosUnicos
    /\ checked' = [checked EXCEPT !.quartos =
                      IF quartos \in @ THEN @ \ {quartos} ELSE @ \cup {quartos}]
    /\ UNCHANGED <<pageVarsOnly, call, lancamentos_residenciais, generatorVars,
                   commercial_data, rawDataComercial, selectedBairros, serverVars>>

\* applyFilters reading rawData.residencial in either view
applyFilters_residencial ==
    /\ pc \in {"page", "comercial"}
    /\ selectedBairros' = checked.bairro
    /\ UNCHANGED <<residential_data, pc, rawData, launchCounts, residential_details,
                   crossTabsData, periodo, crossTables, call, lancamentos_residenciais,
                   generatorVars, commercial_data, rawDataComercial, checked, serverVars>>
    /\ LET filters == getSelectedFilters(currentView, checked, selectedBairros')
           filteredData == filterData(rawData, filters, currentView, selectedBairros')
       IN tables' = updateTables(filteredData)

\* applyFilters in the residential or the commercial view: updateSelection,
\* getSelectedFilters, filterData on rawData[currentView], updateTables
applyFilters ==
    /\ pc \in {"page", "comercial"}
    /\ selectedBairros' = checked.bairro
    /\ UNCHANGED <<residential_data, pc, rawData, launchCounts, residential_details,
                   crossTabsData, periodo, crossTables, call, lancamentos_residenciais,
                   generatorVars, commercial_data, rawDataComercial, checked, serverVars>>
    /\ LET filters == getSelectedFilters(currentView, checked, selectedBairros')
           originalData == rawDataOf(currentView)
           filteredData == filterData(originalData, filters, currentView, selectedBairros')
       IN tables' = updateTables(filteredData)

clearFilters ==
    /\ pc \in {"page", "comercial"}
    /\ checked' = NoChecked
    /\ periodo' = NoPeriod
    /\ selectedBairros' = {}
    /\ UNCHANGED <<residential_data, pc, rawData, launchCounts, residential_details,
                   crossTabsData, crossTables, call, lancamentos_residenciais,
                   generatorVars, commercial_data, rawDataComercial, serverVars>>
    /\ tables' = updateTables(rawDataOf(currentView))

\* rows of the filter scenarios
FilterRows ==
    {Row(202101, "OFERTADOS LANCAMENTOS", 2, 1, 1, "GAMA", 1, <<"Alfa">>, "E1"),
     Row(202102, "OFERTADOS LANCAMENTOS", 3, 1, 1, "GUARA'", NoRooms, <<"Beta">>, "E2")}

CommercialRows ==
    {Row(202101, "OFERTADOS LANCAMENTOS", 4, 1, 1, "GUARA", NoRooms, <<"Alfa">>, "E3")}

NextFilter ==
    \/ \E row \in FilterRows : LoadRow(row)
    \/ \E row \in CommercialRows : LoadCommercialRow(row)
    \/ GenerateDashboard
    \/ PageLoad
    \/ \E view \in {"residencial", "comercial"} : switchView(view)
    \/ \E bairro \in {"GAMA", "GUARA'"} : toggleBairro(bairro)
    \/ toggleQuartos("1")
    \/ applyFilters
    \/ clearFilters

SpecFilter == Init /\ [][NextFilter]_vars

\* C26: after applyFilters or clearFilters in the residential or the commercial
\* view, the tables hold the aggregates of filterData(rawData[currentView],
\* the filters ticked now), whatever was ticked or applied before, and no step
\* of the open page changes rawData
C26_TablesFollowCurrentSelection ==
    [][/\ (applyFilters \/ clearFilters) =>
             tables' = updateTables(filterData(rawDataOf(currentView),
                                               getSelectedFilters(currentView, checked', checked'.bairro),
                                               currentView, checked'.bairro))
       /\ Generated => (rawData' = rawData /\ rawDataComercial' = rawDataComercial)]_vars

\* the residential tables of the rows of GUARA alone, after a sheet with a
\* GAMA row was filtered
C26_Witness ==
    /\ pc = "page"
    /\ checked.bairro = {"GUARA'"}
    /\ \E i \in DOMAIN rawData : rawData[i].BAIRRO = "GAMA"
    /\ tables.shown
    /\ tables.series = tableSeries(SelectSeq(rawData, LAMBDA row : row.BAIRRO = "GUARA'"))

\* the number of projects the Launch Manager lists for the residential sheet
\* in the months of a set
ResidentialProjects(months) ==
    SumOver([p \in DOMAIN residential_details |-> Len(residential_details[p])],
            DOMAIN residential_details \cap months)

\* C27: the '[N]' beside each launch figure on screen is the number of projects
\* of the whole residential sheet for that month, quarter or year, 0 without
\* any, in the residential and in the commercial view and under every filter
C27_ProjectCountsConstant ==
    (pc \in {"page", "comercial"} /\ tables.shown) =>
        LET months == DOMAIN residential_details
        IN /\ \A p \in DOMAIN tables.series.lancamentos.monthly :
                 tables.empreendimentos.monthly[p] = ResidentialProjects({p})
           /\ \A k \in DOMAIN tables.series.lancamentos.quarterly :
                 tables.empreendimentos.quarterly[k]
                     = ResidentialProjects({p \in months : quarterKey(p) = k})
           /\ \A y \in DOMAIN tables.series.lancamentos.yearly :
                 tables.empreendimentos.yearly[y]
                     = ResidentialProjects({p \in months : yearKey(p) = y})

\* the commercial view with its launches of 202101 on screen, beside them the
\* one residential project of that month
C27_Witness ==
    /\ pc = "comercial"
    /\ tables.shown
    /\ 202101 \in DOMAIN tables.series.lancamentos.monthly
    /\ tables.empreendimentos.monthly[202101] = 1
    /\ Len(rawData) > 0

\* ------------------------------------------------ deactivated users
\* the user of the session of browser b is in user_profiles.json with active = false
Deactivated(b) ==
    /\ session[b].user \in DOMAIN user_profiles
    /\ ~user_profiles[session[b].user].active

\* C28: a request to /dashboard of a user whose record has active = false is
\* answered with no dashboard file, also when its session was established
\* before the deactivation
C28_DeactivatedUserNotServed ==
    [][\A b \in Browsers :
          (protected(b, "/dashboard") /\ Deactivated(b)) => response'[b] \notin templates]_vars

\* C29: a /logout carrying a session id that is not the registered session id
\* of its user leaves the user's entry of _active_sessions as it was
C29_LogoutKeepsNewerSession ==
    [][\A b \in Browsers :
          (logout(b) /\ Superseded(b))
              => _active_sessions'[session[b].user] = _active_sessions[session[b].user]]_vars

\* C30: no write of user_profiles.json by the server or by a permission manager
\* makes a deactivated user active again (no step of the model re-activates a user)
C30_DeactivationNotLost ==
    [][\A email \in Emails :
          ~user_profiles[email].active => ~user_profiles'[email].active]_vars

====
